---- MODULE Spec2Model ----
(***************************************************************************)
(* Things3TodaySync: the Google Tasks -> Things3 reconciliation pass of    *)
(* google_to_things_sync.py (class TwoWaySync), as a state machine.        *)
(*                                                                         *)
(* Python dicts are functions whose DOMAIN is the set of keys; a missing   *)
(* key read with dict.get is the record NoDue / the string "None".         *)
(***************************************************************************)
EXTENDS Integers, Sequences, FiniteSets, TLC

(* ------------------------------ bounds -------------------------------- *)
\* passes (runs of syncAll) in one behaviour
MaxPasses == 2
\* edits the user makes in the cloud store in one behaviour
MaxEdits == 1
\* calendar days a due timestamp may name: 1..MaxDay
MaxDay == 2
\* calls of detectChanges made on its own on one task
MaxCalls == 2
\* characters of a title handed to canonTitle
MaxTitleLen == 4
\* runs of the four extraction scripts, one after the other
MaxEpochs == 2
\* changes the user makes to the local tasks while and between extractions
MaxLocalEdits == 2
\* pages the cloud store cuts a list into
MaxPages == 2
\* runs of processEnglishTasks, and of the server's script
MaxRuns == 2
\* rows appended to the CSV file of the URL server
MaxRows == 2
\* requests of GET /new_urls
MaxRequests == 3
\* lines of the URL file of the link server
MaxLines == 3

(* ------------------------------ universe ------------------------------ *)
GIds == {"g1", "g2"}
UUIDs == {"u1", "u2"}
\* the lists the cloud account holds: two tracked ones and one that is not
AccountLists == {"Today", "Upcoming", "Reminders"}
Statuses == {"needsAction", "completed"}
\* the hours and UTC offsets a due timestamp may carry
Hours == {0, 23}
Offsets == {0, -5}

NoDue == [kind |-> "none"]
BadDue == [kind |-> "malformed"]
Ts(d, h, o) == [kind |-> "ts", day |-> d, hour |-> h, off |-> o]
WellFormedDues == {Ts(d, h, o) : d \in 1..MaxDay, h \in Hours, o \in Offsets}
AllDues == {NoDue, BadDue} \cup WellFormedDues

\* what the Things3 URL scheme is handed as a deadline
ThingsDate(d) == [kind |-> "date", day |-> d]
EmptyStr == [kind |-> "empty"]

EmptyDict == [x \in {} |-> TRUE]
Drop(f, k) == [x \in DOMAIN f \ {k} |-> f[x]]
Get(f, k, default) == IF k \in DOMAIN f THEN f[k] ELSE default

TitleOf(u) == IF u = "u1" THEN "Pay rent" ELSE "Buy milk"

VARIABLES
    cloud,            \* cloud store: cloud id -> task record, for the tasks that exist
    used,             \* cloud ids the cloud store has ever assigned
    mapping_file,     \* outputs/task_mapping.json
    state_file,       \* outputs/sync_state.json
    task_mapping,     \* self.task_mapping
    sync_state,       \* self.sync_state
    things_auth_token,\* whether self.things_auth_token is a non-empty string
    pc,               \* where syncAll stands: idle, lists, tasks (detect: SpecDetect)
    li,               \* index into sync_lists of the list being synced
    todo,             \* tasks fetched by syncList and not processed yet
    all_google_task_ids, \* the ids collected by the first fetch of syncAll
    effects,          \* calls made to the local store and the cloud store in this pass, in order
    trail,            \* one record per mapped task processed in this pass
    orphan_seen,      \* self.task_mapping as the orphan check of this pass found it
    last_detect,      \* the last call of detectChanges made on its own: arguments and result
    owed,             \* cloud ids whose completion was detected and not yet applied locally
    passes,           \* passes started
    edits,            \* user edits made in the cloud store
    skipped,          \* the fetched tasks this pass found no Things3 UUID for
    title,            \* canonTitle on its own: the title at hand
    key,              \* canonTitle on its own: what the last call returned
    last_op,          \* canonTitle on its own: the last step taken
    things,           \* the local store: task id -> title and the list the task is in
    csv,              \* outputs/*.csv: view -> the file of that view
    xpc,              \* index into Views of the extraction script that runs next
    epochs,           \* complete runs of the four extraction scripts
    local_edits,      \* changes the user made to the local tasks
    mid_epoch,        \* TRUE once a change was made while the four scripts were under way
    last_filter,      \* the last extraction: its view and the tasks it kept
    disk,             \* the state files as they are on disk while they are saved
    lost,             \* cloud ids deleted by a pass that ended before it saved
    pages,            \* the cloud store's answer to tasks().list: list -> its pages
    fetch,            \* the first loop of syncAll and getGoogleTasks inside it
    file_mode,        \* per state file: absent, present, or present and not to be opened
    exit_code,        \* the exit status of the last run of main
    inbox,            \* the tasks of the default list of the cloud store
    processed_file,   \* the ids in outputs/processed_tasks.json
    english,          \* where processEnglishTasks stands, and its locals
    added,            \* cloud id -> times addToThings3 put it in the local store
    fetched_csv,      \* the rows of server/outputs/fetched_tasks.csv
    processed_csv,    \* the rows of server/outputs/processed_tasks.csv
    server,           \* where main of server/process_english_tasks.py stands, and its locals
    url_csv,          \* server/outputs/processed_tasks.csv as the URL server and the link script see it
    last_linked,      \* the number in apple_shortcuts/last_linked_task.txt
    responses,        \* the answers of GET /new_urls, in order
    other,            \* a second invocation of main: where it stands, what it loaded and fetched
    links_file,       \* ipad_links/generated_things_urls.txt, line by line
    index_file,       \* ipad_links/last_served_url.txt: its text, or no file
    answers,          \* the answers of GET /next, in order
    output_file,      \* apple_shortcuts/generated_things_urls.txt: the URLs appended, in order
    local_csv,        \* outputs/processed_tasks.csv on the machine that runs process_english_tasks.py and uploads it
    processed_task_ids,\* WorkflowAutomator.processed_task_ids
    ids_file,         \* processed_task_ids.json: the ids saved
    workflow,         \* where runSingleCycle stands, its lists, and the ids whose URL was opened
    handlers,         \* the /new_urls requests being handled: where each stands and the table it read
    linker            \* a run of update_csv_with_urls: where it stands and the table it read

\* the state of the reconciliation pass and of its environment
sync_vars == <<cloud, used, mapping_file, state_file, task_mapping, sync_state,
               things_auth_token, pc, li, todo, all_google_task_ids, effects, trail,
               orphan_seen, last_detect, owed, passes, edits, skipped>>
canon_vars == <<title, key, last_op>>
extract_vars == <<things, csv, xpc, epochs, local_edits, mid_epoch, last_filter>>
save_vars == <<disk>>
interrupt_vars == <<lost>>
fetch_vars == <<pages, fetch>>
load_vars == <<file_mode, exit_code>>
english_vars == <<inbox, processed_file, english, added>>
server_vars == <<fetched_csv, processed_csv, server>>
urls_vars == <<url_csv, last_linked, responses>>
overlap_vars == <<other>>
links_vars == <<links_file, index_file, answers>>
upload_vars == <<output_file, local_csv>>
workflow_vars == <<processed_task_ids, ids_file, workflow>>
race_vars == <<handlers, linker>>
\* the state of the parts that are modelled on their own further down
aux_vars == <<interrupt_vars, fetch_vars, load_vars, english_vars, server_vars, urls_vars,
              overlap_vars, links_vars, upload_vars, workflow_vars, race_vars>>
\* what the end of a pass before its time leaves alone, besides the pass
interrupt_rest == <<canon_vars, extract_vars, save_vars, fetch_vars, load_vars, english_vars,
                    server_vars, urls_vars, overlap_vars, links_vars,
                    upload_vars, workflow_vars, race_vars>>
\* what the fetch of the lists leaves alone
fetch_rest == <<sync_vars, canon_vars, extract_vars, save_vars, interrupt_vars, load_vars,
                english_vars, server_vars, urls_vars, overlap_vars,
                links_vars, upload_vars, workflow_vars, race_vars>>
\* what a run of main from the files on disk leaves alone, besides the pass
load_rest == <<canon_vars, extract_vars, interrupt_vars, fetch_vars, english_vars,
               server_vars, urls_vars, overlap_vars, links_vars, upload_vars,
               workflow_vars, race_vars>>
\* what processEnglishTasks leaves alone
english_rest == <<sync_vars, canon_vars, extract_vars, save_vars,
                  interrupt_vars, fetch_vars, load_vars, server_vars,
                  urls_vars, overlap_vars, links_vars, upload_vars,
                  workflow_vars, race_vars>>
\* what the script of the server leaves alone, besides the default list
server_rest == <<sync_vars, canon_vars, extract_vars, save_vars,
                 interrupt_vars, fetch_vars, load_vars, processed_file, english, added,
                 urls_vars, overlap_vars, links_vars, upload_vars,
                 workflow_vars, race_vars>>
\* what the URL server and the link script leave alone, besides their files
urls_rest == <<sync_vars, canon_vars, extract_vars, save_vars,
               interrupt_vars, fetch_vars, load_vars, english_vars, server_vars,
               overlap_vars, links_vars, workflow_vars, race_vars>>
\* what a second invocation of main leaves alone, besides the files and the cloud store
overlap_rest == <<used, task_mapping, sync_state, things_auth_token, pc, li, todo,
                  all_google_task_ids, effects, trail, orphan_seen, last_detect, owed,
                  passes, edits, skipped, canon_vars, extract_vars, save_vars,
                  interrupt_vars, fetch_vars, load_vars, english_vars, server_vars,
                  urls_vars, links_vars, upload_vars, workflow_vars,
                  race_vars>>
\* what the link server leaves alone
links_rest == <<sync_vars, canon_vars, extract_vars, save_vars,
                interrupt_vars, fetch_vars, load_vars, english_vars, server_vars, urls_vars, overlap_vars,
                upload_vars, workflow_vars, race_vars>>
\* what a cycle of WorkflowAutomator leaves alone, besides the default list and the CSV file
workflow_rest == <<sync_vars, canon_vars, extract_vars, save_vars,
                   interrupt_vars, fetch_vars, load_vars, processed_file, english, added,
                   server_vars, last_linked, responses, overlap_vars, links_vars, upload_vars,
                   race_vars>>
\* what an interleaved request or run of the link script leaves alone, besides the files
race_rest == <<sync_vars, canon_vars, extract_vars, save_vars,
               interrupt_vars, fetch_vars, load_vars, english_vars, server_vars, overlap_vars,
               links_vars, local_csv, workflow_vars>>
\* what a step of the reconciliation pass leaves alone
side_vars == <<canon_vars, extract_vars, save_vars, aux_vars>>
\* what a call of canonTitle leaves alone
canon_rest == <<sync_vars, extract_vars, save_vars, aux_vars>>
\* what an extraction script leaves alone
extract_rest == <<sync_vars, canon_vars, save_vars, aux_vars>>
\* what the saving of the two state files leaves alone
save_rest == <<cloud, used, things_auth_token, li, todo, all_google_task_ids, effects,
               trail, orphan_seen, last_detect, owed, passes, edits, skipped,
               canon_vars, extract_vars, aux_vars>>

vars == <<sync_vars, side_vars>>

(* ----------------------- google_to_things_sync.py --------------------- *)
sync_lists == <<"Today", "Upcoming", "Anytime", "Someday">>

\* _loadSyncState: the default when no file is present
DefaultSyncState == [last_sync |-> "None", task_states |-> EmptyDict]

\* updateTaskMapping: the entry is stamped with the time of the call
UpdateTaskMapping(mapping, things_uuid, google_task_id, task_title) ==
    [x \in DOMAIN mapping \cup {things_uuid} |->
        IF x = things_uuid
        THEN [google_id |-> google_task_id, title |-> task_title, last_synced |-> "now"]
        ELSE mapping[x]]

\* getGoogleTasks: every task of the list, completed and hidden ones included
GetGoogleTasks(cl, list_name) ==
    {[id |-> g, status |-> cl[g].status, due |-> cl[g].due,
      title |-> cl[g].title, updated |-> cl[g].updated] :
        g \in {x \in DOMAIN cl : cl[x].list = list_name}}

FindThingsUUID(mapping, google_task_id) ==
    IF \E u \in DOMAIN mapping : mapping[u].google_id = google_task_id
    THEN CHOOSE u \in DOMAIN mapping : mapping[u].google_id = google_task_id
    ELSE "None"

\* convertGoogleDateToThings: the date part of the timestamp as written, "" when
\* the string is empty or does not parse
ConvertGoogleDateToThings(google_date) ==
    IF google_date.kind = "ts" THEN ThingsDate(google_date.day) ELSE EmptyStr

\* mutant of CompletionChanges: the prior status is not consulted, a completed
\* task is marked on every pass
CompletionChangesAlways(current_status, prev_status) ==
    IF current_status = "completed"
    THEN [completed |-> "true", mark_for_deletion |-> TRUE]
    ELSE IF prev_status = "completed" /\ current_status = "needsAction"
         THEN [completed |-> "false"]
         ELSE EmptyDict

\* detectChanges, the completion check
CompletionChanges(current_status, prev_status) ==
    IF current_status = "completed"
    THEN IF prev_status # "completed"
         THEN [completed |-> "true", mark_for_deletion |-> TRUE]
         ELSE EmptyDict
    ELSE IF prev_status = "completed" /\ current_status = "needsAction"
         THEN [completed |-> "false"]
         ELSE EmptyDict

\* mutant of DeadlineChanges: a removed due date is not seen as a change
DeadlineChangesTruthy(current_due, prev_due) ==
    IF current_due # NoDue /\ current_due # prev_due
    THEN IF ConvertGoogleDateToThings(current_due) # EmptyStr
         THEN [deadline |-> ConvertGoogleDateToThings(current_due)]
         ELSE EmptyDict
    ELSE EmptyDict

\* detectChanges, the due date check
DeadlineChanges(current_due, prev_due) ==
    IF current_due # prev_due
    THEN IF current_due # NoDue
         THEN IF ConvertGoogleDateToThings(current_due) # EmptyStr
              THEN [deadline |-> ConvertGoogleDateToThings(current_due)]
              ELSE EmptyDict
         ELSE [deadline |-> EmptyStr]
    ELSE EmptyDict

ObservedState(google_task) ==
    [status |-> google_task.status, due |-> google_task.due,
     title |-> google_task.title, updated |-> google_task.updated]

\* mutant of DetectChanges: the observed state is not written
DetectChangesKeepsState(google_task, task_states) ==
    LET has == google_task.id \in DOMAIN task_states
        prev_status == IF has THEN task_states[google_task.id].status ELSE "None"
        prev_due == IF has THEN task_states[google_task.id].due ELSE NoDue
    IN  [changes |-> CompletionChanges(google_task.status, prev_status)
                       @@ DeadlineChanges(google_task.due, prev_due),
         task_states |-> task_states]

\* mutant of DetectChanges: the observed state is written only with a
\* non-empty changeset
DetectChangesWritesOnChange(google_task, task_states) ==
    LET has == google_task.id \in DOMAIN task_states
        prev_status == IF has THEN task_states[google_task.id].status ELSE "None"
        prev_due == IF has THEN task_states[google_task.id].due ELSE NoDue
        changes == CompletionChanges(google_task.status, prev_status)
                     @@ DeadlineChanges(google_task.due, prev_due)
    IN  [changes |-> changes,
         task_states |-> IF changes = EmptyDict THEN task_states
                         ELSE [x \in DOMAIN task_states \cup {google_task.id} |->
                                 IF x = google_task.id THEN ObservedState(google_task)
                                 ELSE task_states[x]]]

\* detectChanges: the changeset, and task_states with the task's entry overwritten
DetectChanges(google_task, task_states) ==
    LET has == google_task.id \in DOMAIN task_states
        prev_status == IF has THEN task_states[google_task.id].status ELSE "None"
        prev_due == IF has THEN task_states[google_task.id].due ELSE NoDue
    IN  [changes |-> CompletionChanges(google_task.status, prev_status)
                       @@ DeadlineChanges(google_task.due, prev_due),
         task_states |-> [x \in DOMAIN task_states \cup {google_task.id} |->
                            IF x = google_task.id THEN ObservedState(google_task)
                            ELSE task_states[x]]]

\* One call that left the process: op and id are what was sent (id is the
\* Things3 UUID for update and cancel, the cloud id for gdelete), ok is what
\* came back, task is the cloud id of the task the call was made for.
Effect(op, id, task, updates, ok) ==
    [op |-> op, id |-> id, task |-> task, updates |-> updates, ok |-> ok]

\* updateThingsTask: nothing is run without a token; otherwise `open` is run
\* and its exit status is the result
UpdateThingsTask(token, things_uuid, task_id, updates, exit_ok) ==
    IF ~token
    THEN [log |-> <<>>, ok |-> FALSE]
    ELSE [log |-> <<Effect("update", things_uuid, task_id, updates, exit_ok)>>,
          ok |-> exit_ok]

\* deleteThingsTask: Things3 has no delete URL, the task is cancelled
DeleteThingsTask(token, things_uuid, task_id, exit_ok) ==
    IF ~token
    THEN [log |-> <<>>, ok |-> FALSE]
    ELSE [log |-> <<Effect("cancel", things_uuid, task_id, [canceled |-> "true"], exit_ok)>>,
          ok |-> exit_ok]

\* deleteGoogleTask that returns True whatever the request came to
DeleteGoogleTaskReportsTrue(cl, task_id, api_ok) ==
    LET ok == api_ok /\ task_id \in DOMAIN cl
    IN  [log |-> <<Effect("gdelete", task_id, task_id, EmptyDict, ok)>>,
         cloud |-> IF ok THEN Drop(cl, task_id) ELSE cl,
         ok |-> TRUE]

\* deleteGoogleTask: the request succeeds only on a task that exists
DeleteGoogleTask(cl, task_id, api_ok) ==
    LET ok == api_ok /\ task_id \in DOMAIN cl
    IN  [log |-> <<Effect("gdelete", task_id, task_id, EmptyDict, ok)>>,
         cloud |-> IF ok THEN Drop(cl, task_id) ELSE cl,
         ok |-> ok]

\* What one iteration of syncList's loop saw of a mapped task: the fetched
\* task's id and status, the UUID it resolved to, what the stores held
\* before, and the changeset detectChanges returned.
TrailRecord(task, things_uuid, mapping, task_states, was_owed, changes) ==
    [id |-> task.id, status |-> task.status, uuid |-> things_uuid,
     prev_status |-> IF task.id \in DOMAIN task_states
                     THEN task_states[task.id].status ELSE "None",
     provisional |-> things_uuid \in DOMAIN mapping
                     /\ mapping[things_uuid].last_synced = "None",
     was_owed |-> was_owed, changes |-> changes]

\* mutant of ShouldDelete: the result of updateThingsTask is not checked
ShouldDeleteUnchecked(update_ok, mark_for_deletion) ==
    mark_for_deletion

\* mutant of ShouldDelete: every applied changeset deletes the cloud task
ShouldDeleteOnAnyChange(update_ok, mark_for_deletion) ==
    update_ok

\* syncList: the cloud task is deleted only after updateThingsTask returned
\* True, and only for a changeset that carried mark_for_deletion
ShouldDelete(update_ok, mark_for_deletion) ==
    update_ok /\ mark_for_deletion

\* mutant of RemoveSynced: the mapping entry is kept
RemoveSyncedKeepsMapping(mapping, task_states, things_uuid, task_id) ==
    [task_mapping |-> mapping,
     task_states |-> Drop(task_states, task_id)]

\* mutant of RemoveSynced: the observed state is kept
RemoveSyncedKeepsState(mapping, task_states, things_uuid, task_id) ==
    [task_mapping |-> Drop(mapping, things_uuid),
     task_states |-> task_states]

\* syncList, after a successful cloud delete: the mapping entry and the
\* observed state of the task are dropped
RemoveSynced(mapping, task_states, things_uuid, task_id) ==
    [task_mapping |-> Drop(mapping, things_uuid),
     task_states |-> Drop(task_states, task_id)]

\* the mapping entries whose title is the title of the cloud task
SameTitle(mapping, google_task) ==
    {u \in DOMAIN mapping : mapping[u].title = google_task.title}

\* mutant of Resolve: an entry with the task's title is taken when no entry
\* has the task's cloud id
ResolveWithTitleFallback(mapping, google_task) ==
    IF FindThingsUUID(mapping, google_task.id) # "None"
    THEN FindThingsUUID(mapping, google_task.id)
    ELSE IF SameTitle(mapping, google_task) # {}
         THEN CHOOSE u \in SameTitle(mapping, google_task) : TRUE
         ELSE "None"

\* syncList: the UUID is looked up by the task's cloud id, nothing else of the
\* task is used
Resolve(mapping, google_task) ==
    FindThingsUUID(mapping, google_task.id)

\* what syncList skipped: the task and the entries that carried its title
SkipRecord(task, mapping) ==
    [id |-> task.id, title |-> task.title, title_matches |-> SameTitle(mapping, task)]

\* mutant of Unmatched: detectChanges runs before the UUID is checked
UnmatchedObserved(task, mapping, task_states, cl) ==
    [task_mapping |-> mapping,
     task_states |-> DetectChanges(task, task_states).task_states,
     cloud |-> cl, log |-> <<>>, trail |-> {}, skipped |-> {SkipRecord(task, mapping)}]

\* syncList, `if not things_uuid: continue`: nothing is called, nothing is
\* written
Unmatched(task, mapping, task_states, cl) ==
    [task_mapping |-> mapping, task_states |-> task_states, cloud |-> cl,
     log |-> <<>>, trail |-> {}, skipped |-> {SkipRecord(task, mapping)}]

\* syncList, one iteration of `for task in tasks`: the stores and the calls
\* made. exit_ok and api_ok are what `open` and the cloud store's delete
\* answer when called.
ProcessTask(task, mapping, task_states, cl, token, was_owed, exit_ok, api_ok) ==
    LET things_uuid == Resolve(mapping, task)
        det == DetectChanges(task, task_states)
        mark_for_deletion == Get(det.changes, "mark_for_deletion", FALSE)
        updates == Drop(det.changes, "mark_for_deletion")
        upd == UpdateThingsTask(token, things_uuid, task.id, updates, exit_ok)
        deleting == det.changes # EmptyDict /\ ShouldDelete(upd.ok, mark_for_deletion)
        del == DeleteGoogleTask(cl, task.id, api_ok)
        removed == RemoveSynced(mapping, det.task_states, things_uuid, task.id)
    IN  IF things_uuid = "None"
        THEN Unmatched(task, mapping, task_states, cl)
        ELSE [task_mapping |-> IF deleting /\ del.ok THEN removed.task_mapping
                               ELSE mapping,
              task_states |-> IF deleting /\ del.ok THEN removed.task_states
                              ELSE det.task_states,
              cloud |-> IF deleting THEN del.cloud ELSE cl,
              log |-> (IF det.changes # EmptyDict THEN upd.log ELSE <<>>)
                      \o (IF deleting THEN del.log ELSE <<>>),
              trail |-> {TrailRecord(task, things_uuid, mapping, task_states, was_owed,
                                     det.changes)},
              skipped |-> {}]

\* what running `open` may come to: exit status 0, another exit status, no
\* exit within 5 seconds, or `open` cannot be run; and what a request to the
\* cloud store may come to
OpenOutcomes == {"exit0", "nonzero", "timeout", "oserror"}
ApiOutcomes == {"ok", "httperror"}

\* mutant of RunOpen: TimeoutExpired and OSError are not caught
RunOpenUncaught(outcome) ==
    [ok |-> outcome = "exit0", raised |-> outcome \in {"timeout", "oserror"}]

\* updateThingsTask, deleteThingsTask: subprocess.run inside try/except
\* Exception; the result is True on exit status 0 only, nothing is raised
RunOpen(outcome) == [ok |-> outcome = "exit0", raised |-> FALSE]

\* deleteGoogleTask: the request inside try/except Exception
Execute(outcome) == [ok |-> outcome = "ok", raised |-> FALSE]

\* mutant of IsOrphan: last_synced is not checked
IsOrphanUnstamped(entry, all_ids) ==
    /\ entry.google_id # "None"
    /\ entry.google_id \notin all_ids

\* syncAll, the check after all lists: an entry is a task deleted from the
\* cloud if it has a cloud id that the first fetch did not return and it has
\* a last_synced stamp
IsOrphan(entry, all_ids) ==
    /\ entry.google_id # "None"
    /\ entry.google_id \notin all_ids
    /\ entry.last_synced # "None"

RECURSIVE CancelLog(_, _, _, _)
\* the deleteThingsTask calls of the orphan check, one per orphan; exit_oks
\* are the orphans whose `open` would exit with 0
CancelLog(orphans, mapping, token, exit_oks) ==
    IF orphans = {} THEN <<>>
    ELSE LET u == CHOOSE x \in orphans : TRUE
         IN  DeleteThingsTask(token, u, mapping[u].google_id, u \in exit_oks).log
             \o CancelLog(orphans \ {u}, mapping, token, exit_oks)

\* mutant of OrphanStep: the observed state of a cancelled task is kept
OrphanStepKeepsState(mapping, task_states, all_ids, token, exit_oks) ==
    LET orphans == {u \in DOMAIN mapping : IsOrphan(mapping[u], all_ids)}
        tasks_to_remove == {u \in orphans :
            DeleteThingsTask(token, u, mapping[u].google_id, u \in exit_oks).ok}
    IN  [task_mapping |-> [u \in DOMAIN mapping \ tasks_to_remove |-> mapping[u]],
         task_states |-> task_states,
         log |-> CancelLog(orphans, mapping, token, exit_oks)]

\* syncAll from the orphan check to the end: tasks_to_remove are the orphans
\* whose cancel reported success
OrphanStep(mapping, task_states, all_ids, token, exit_oks) ==
    LET orphans == {u \in DOMAIN mapping : IsOrphan(mapping[u], all_ids)}
        tasks_to_remove == {u \in orphans :
            DeleteThingsTask(token, u, mapping[u].google_id, u \in exit_oks).ok}
        gone == {mapping[u].google_id : u \in tasks_to_remove}
    IN  [task_mapping |-> [u \in DOMAIN mapping \ tasks_to_remove |-> mapping[u]],
         task_states |-> [g \in DOMAIN task_states \ gone |-> task_states[g]],
         log |-> CancelLog(orphans, mapping, token, exit_oks)]

(* ------------------------------- utils.py ------------------------------ *)
\* A title is a Python str, here a sequence of characters. The characters:
\* an ASCII letter in both cases, two kinds of whitespace, the Greek sigma in
\* its three forms (str.lower turns the capital into the final form at the
\* end of a word), and DOUBLE-STRUCK CAPITAL C, an upper-case letter that has
\* no lower-case form.
Space == " "
Tab == "\t"
CapSigma == "U+03A3"
SmallSigma == "U+03C3"
FinalSigma == "U+03C2"
DoubleStruckC == "U+2102"
TitleChars == {"A", "a", Space, Tab, CapSigma, SmallSigma, DoubleStruckC}
TitleStrings == UNION {[1..n -> TitleChars] : n \in 0..MaxTitleLen}

\* str.isspace, str.isupper and the Unicode property Cased
IsSpace(c) == c \in {Space, Tab}
IsUpper(c) == c \in {"A", CapSigma, DoubleStruckC}
IsCased(c) == c \in {"A", "a", CapSigma, SmallSigma, FinalSigma, DoubleStruckC}

RECURSIVE LStrip(_)
LStrip(s) == IF s # <<>> /\ IsSpace(Head(s)) THEN LStrip(Tail(s)) ELSE s

RECURSIVE RStrip(_)
RStrip(s) ==
    IF s # <<>> /\ IsSpace(s[Len(s)]) THEN RStrip(SubSeq(s, 1, Len(s) - 1)) ELSE s

\* str.strip()
Strip(s) == RStrip(LStrip(s))

\* the length of the first word of s, which starts with no whitespace
WordLen(s) ==
    IF \E i \in 1..Len(s) : IsSpace(s[i])
    THEN (CHOOSE i \in 1..Len(s) :
            IsSpace(s[i]) /\ \A j \in 1..(i - 1) : ~IsSpace(s[j])) - 1
    ELSE Len(s)

RECURSIVE SplitOnSpace(_)
\* mutant of Split: str.split(" "), every single space separates, a tab does not
SplitOnSpace(s) ==
    IF \E i \in 1..Len(s) : s[i] = Space
    THEN LET i == CHOOSE k \in 1..Len(s) : s[k] = Space /\ \A j \in 1..(k - 1) : s[j] # Space
         IN  <<SubSeq(s, 1, i - 1)>> \o SplitOnSpace(SubSeq(s, i + 1, Len(s)))
    ELSE <<s>>

RECURSIVE Split(_)
\* str.split(): the words between runs of whitespace, no empty word
Split(s) ==
    LET t == LStrip(s)
    IN  IF t = <<>> THEN <<>>
        ELSE <<SubSeq(t, 1, WordLen(t))>> \o Split(SubSeq(t, WordLen(t) + 1, Len(t)))

RECURSIVE Join(_)
\* " ".join(words)
Join(words) ==
    IF words = <<>> THEN <<>>
    ELSE IF Len(words) = 1 THEN words[1]
    ELSE words[1] \o <<Space>> \o Join(Tail(words))

\* str.lower on a capital sigma: the final form when a cased character
\* precedes it and none follows it
IsFinalSigma(s, i) ==
    /\ i > 1 /\ IsCased(s[i - 1])
    /\ i = Len(s) \/ ~IsCased(s[i + 1])

\* str.lower()
Lower(s) ==
    [i \in 1..Len(s) |->
        CASE s[i] = "A" -> "a"
          [] s[i] = CapSigma -> IF IsFinalSigma(s, i) THEN FinalSigma ELSE SmallSigma
          [] OTHER -> s[i]]

RECURSIVE ReplaceAll(_, _, _)
\* str.replace(old, new): every occurrence, left to right, not overlapping
ReplaceAll(s, old, new) ==
    IF Len(s) < Len(old) THEN s
    ELSE IF SubSeq(s, 1, Len(old)) = old
         THEN new \o ReplaceAll(SubSeq(s, Len(old) + 1, Len(s)), old, new)
         ELSE <<Head(s)>> \o ReplaceAll(Tail(s), old, new)

\* mutant of CanonTitle: whitespace is collapsed by hand, double spaces
\* first and tabs after
CanonTitleByReplace(title_str) ==
    Lower(ReplaceAll(ReplaceAll(Strip(title_str), <<Space, Space>>, <<Space>>),
                     <<Tab>>, <<Space>>))

\* canonTitle (utils.py) and canon_title (extract_upcoming.py,
\* extract_anytime.py): " ".join(title.strip().split()).lower()
CanonTitle(title_str) == Lower(Join(Split(Strip(title_str))))

(* ---------------------- extract_*.py, utils.py -------------------------- *)
\* the views in the order the extraction scripts are run
Views == <<"Today", "Upcoming", "Anytime", "Someday">>
\* outputs/today_view.csv and the like: absent, or the rows written
NoFile == [kind |-> "absent"]

\* is_pure_english: only ASCII characters and at least one English letter
IsPureEnglish(text) ==
    /\ text # <<>>
    /\ \A i \in 1..Len(text) : text[i] \in {"A", "a", Space, Tab}
    /\ \E i \in 1..Len(text) : text[i] \in {"A", "a"}

\* writeToCsv: one row per task; a title of letters is read back as written
WriteToCsv(tasks) ==
    [kind |-> "csv",
     rows |-> [i \in DOMAIN tasks |->
                 [ItemName |-> tasks[i].title, TaskID |-> tasks[i].task_id]]]

\* loadExistingTitles, load_existing_titles
LoadExistingTitles(csv_file) ==
    IF csv_file = NoFile THEN {}
    ELSE {CanonTitle(csv_file.rows[i].ItemName) : i \in DOMAIN csv_file.rows}

\* extractAllSomedayTasks: the non-empty TaskID values of a file
LoadExistingTaskIds(csv_file) ==
    IF csv_file = NoFile THEN {}
    ELSE {csv_file.rows[i].TaskID : i \in DOMAIN csv_file.rows} \ {""}

\* extractTodayTasks: English-only titles are left out
TodayTasks(all_tasks) ==
    SelectSeq(all_tasks, LAMBDA t : ~IsPureEnglish(t.title))

\* extractUpcomingTasks: titles of today_view.csv are left out
UpcomingTasks(all_tasks, files) ==
    LET existing_titles == LoadExistingTitles(files["Today"])
    IN  SelectSeq(all_tasks, LAMBDA t : CanonTitle(t.title) \notin existing_titles)

\* extractAnytimeTasks: titles of today_view.csv and upcoming_tasks.csv are
\* left out
AnytimeTasks(all_tasks, files) ==
    LET existing == LoadExistingTitles(files["Today"])
                      \cup LoadExistingTitles(files["Upcoming"])
    IN  SelectSeq(all_tasks, LAMBDA t : CanonTitle(t.title) \notin existing)

\* extractAllSomedayTasks: task ids and titles of the three other files are
\* left out
SomedayTasks(all_tasks, files) ==
    LET existing_task_ids == LoadExistingTaskIds(files["Today"])
                               \cup LoadExistingTaskIds(files["Upcoming"])
                               \cup LoadExistingTaskIds(files["Anytime"])
        existing_titles == LoadExistingTitles(files["Today"])
                             \cup LoadExistingTitles(files["Upcoming"])
                             \cup LoadExistingTitles(files["Anytime"])
    IN  SelectSeq(all_tasks,
                  LAMBDA t : /\ ~(t.task_id # "" /\ t.task_id \in existing_task_ids)
                             /\ CanonTitle(t.title) \notin existing_titles)

(* ------------------------------ actions -------------------------------- *)
\* no title is at hand
NoKey == [kind |-> "none"]
CanonIdle == title = <<>> /\ key = NoKey /\ last_op = "none"

\* no extraction script has run
ExtractIdle ==
    /\ things = EmptyDict
    /\ csv = [v \in {"Today", "Upcoming", "Anytime", "Someday"} |-> NoFile]
    /\ xpc = 1
    /\ epochs = 0
    /\ local_edits = 0
    /\ mid_epoch = FALSE
    /\ last_filter = [view |-> "none"]

\* no state file is being saved
SaveIdle == disk = EmptyDict

\* no pass has ended early
InterruptIdle == lost = {}

\* no list is being fetched page by page
FetchIdle == pages = EmptyDict /\ fetch = [pc |-> "idle"]

\* no run of main from the files on disk
LoadIdle == file_mode = EmptyDict /\ exit_code = "none"

\* processEnglishTasks has not run
EnglishIdle ==
    /\ inbox = {}
    /\ processed_file = {}
    /\ english = [pc |-> "idle"]
    /\ added = EmptyDict

\* the script of the server has not run
ServerIdle ==
    /\ fetched_csv = <<>>
    /\ processed_csv = <<>>
    /\ server = [pc |-> "idle"]

\* no row was written for the URL server, no request was made
UrlsIdle ==
    /\ url_csv = [exists |-> FALSE, columns |-> FALSE, rows |-> <<>>]
    /\ last_linked = 0
    /\ responses = <<>>

\* no second invocation of main
OverlapIdle ==
    other = [pc |-> "idle"]

\* the link server has answered nothing
LinksIdle ==
    /\ links_file = <<>>
    /\ index_file = [exists |-> FALSE, text |-> <<>>]
    /\ answers = <<>>

\* no URL was generated, no file is kept for upload
UploadIdle ==
    /\ output_file = <<>>
    /\ local_csv = <<>>

\* no WorkflowAutomator was made
WorkflowIdle ==
    /\ processed_task_ids = {}
    /\ ids_file = {}
    /\ workflow = [pc |-> "idle"]

\* no request is being handled, the link script is not running
RaceIdle ==
    /\ handlers = <<>>
    /\ linker = [pc |-> "idle"]

\* the parts modelled on their own are at rest
AuxIdle == InterruptIdle /\ FetchIdle /\ LoadIdle /\ EnglishIdle /\ ServerIdle /\ UrlsIdle /\ OverlapIdle /\ LinksIdle /\ UploadIdle /\ WorkflowIdle /\ RaceIdle

\* no pass has run, no file is present
SyncIdle ==
    /\ cloud = EmptyDict
    /\ used = {}
    /\ mapping_file = EmptyDict
    /\ state_file = DefaultSyncState
    /\ task_mapping = EmptyDict
    /\ sync_state = DefaultSyncState
    /\ things_auth_token = TRUE
    /\ pc = "idle"
    /\ li = 1
    /\ todo = {}
    /\ all_google_task_ids = {}
    /\ effects = <<>>
    /\ trail = {}
    /\ orphan_seen = EmptyDict
    /\ last_detect = [called |-> FALSE]
    /\ owed = {}
    /\ passes = 0
    /\ edits = 0
    /\ skipped = {}

Init == SyncIdle /\ CanonIdle /\ ExtractIdle /\ SaveIdle /\ AuxIdle

\* mutant of PushTask: the cloud store hands out an id a second time
PushTaskAnyId(things_uuid, list_name, stamped) ==
    /\ pc = "idle"
    /\ things_uuid \notin DOMAIN mapping_file
    /\ used # GIds
    /\ LET g == CHOOSE x \in GIds : TRUE
           entry == [google_id |-> g, title |-> TitleOf(things_uuid), last_synced |-> "None"]
           m == IF stamped
                THEN UpdateTaskMapping(mapping_file, things_uuid, g, TitleOf(things_uuid))
                ELSE [x \in DOMAIN mapping_file \cup {things_uuid} |->
                        IF x = things_uuid THEN entry ELSE mapping_file[x]]
       IN  /\ cloud' = [x \in DOMAIN cloud \cup {g} |->
                          IF x = g
                          THEN [list |-> list_name, status |-> "needsAction", due |-> NoDue,
                                title |-> TitleOf(things_uuid), updated |-> edits]
                          ELSE cloud[x]]
           /\ used' = used \cup {g}
           /\ mapping_file' = m
           /\ task_mapping' = m
    /\ UNCHANGED <<state_file, sync_state, things_auth_token, pc, li, todo,
                   all_google_task_ids, effects, trail, orphan_seen, owed, last_detect, passes, edits>>
    /\ UNCHANGED <<skipped, side_vars>>

\* A local task is pushed to the cloud store and its mapping entry is written:
\* by the import step without a stamp, or through updateTaskMapping with one.
\* The cloud store assigns an id it never assigned before. Imports run
\* between passes, never during one (the files are not locked, the runs are
\* scheduled one after the other).
PushTask(things_uuid, list_name, stamped) ==
    /\ pc = "idle"
    /\ things_uuid \notin DOMAIN mapping_file
    /\ used # GIds
    /\ LET g == CHOOSE x \in GIds \ used : TRUE
           entry == [google_id |-> g, title |-> TitleOf(things_uuid), last_synced |-> "None"]
           m == IF stamped
                THEN UpdateTaskMapping(mapping_file, things_uuid, g, TitleOf(things_uuid))
                ELSE [x \in DOMAIN mapping_file \cup {things_uuid} |->
                        IF x = things_uuid THEN entry ELSE mapping_file[x]]
       IN  /\ cloud' = [x \in DOMAIN cloud \cup {g} |->
                          IF x = g
                          THEN [list |-> list_name, status |-> "needsAction", due |-> NoDue,
                                title |-> TitleOf(things_uuid), updated |-> edits]
                          ELSE cloud[x]]
           /\ used' = used \cup {g}
           /\ mapping_file' = m
           /\ task_mapping' = m
    /\ UNCHANGED <<state_file, sync_state, things_auth_token, pc, li, todo,
                   all_google_task_ids, effects, trail, orphan_seen, owed, last_detect, passes, edits>>
    /\ UNCHANGED <<skipped, side_vars>>

\* The user completes or reopens a task in the cloud store.
UserSetStatus(g, status) ==
    /\ edits < MaxEdits
    /\ g \in DOMAIN cloud
    /\ status # cloud[g].status
    /\ cloud' = [cloud EXCEPT ![g].status = status, ![g].updated = edits + 1]
    /\ owed' = IF status = "completed" THEN owed ELSE owed \ {g}
    /\ edits' = edits + 1
    /\ UNCHANGED <<used, mapping_file, state_file, task_mapping, sync_state,
                   things_auth_token, pc, li, todo, all_google_task_ids, effects,
                   trail, orphan_seen, last_detect, passes>>
    /\ UNCHANGED <<skipped, side_vars>>

\* The user sets or removes the due date of a task in the cloud store.
UserSetDue(g, due) ==
    /\ edits < MaxEdits
    /\ g \in DOMAIN cloud
    /\ due # cloud[g].due
    /\ cloud' = [cloud EXCEPT ![g].due = due, ![g].updated = edits + 1]
    /\ edits' = edits + 1
    /\ UNCHANGED <<used, mapping_file, state_file, task_mapping, sync_state,
                   things_auth_token, pc, li, todo, all_google_task_ids, effects,
                   trail, orphan_seen, owed, last_detect, passes>>
    /\ UNCHANGED <<skipped, side_vars>>

\* The user deletes a task in the cloud store.
UserDelete(g) ==
    /\ edits < MaxEdits
    /\ g \in DOMAIN cloud
    /\ cloud' = Drop(cloud, g)
    /\ owed' = owed \ {g}
    /\ edits' = edits + 1
    /\ UNCHANGED <<used, mapping_file, state_file, task_mapping, sync_state,
                   things_auth_token, pc, li, todo, all_google_task_ids, effects,
                   trail, orphan_seen, last_detect, passes>>
    /\ UNCHANGED <<skipped, side_vars>>

\* The user creates a task in the cloud store's own application: it has no
\* mapping entry.
UserAdd(list_name, task_title) ==
    /\ edits < MaxEdits
    /\ used # GIds
    /\ LET g == CHOOSE x \in GIds \ used : TRUE
       IN  /\ cloud' = [x \in DOMAIN cloud \cup {g} |->
                          IF x = g
                          THEN [list |-> list_name, status |-> "needsAction", due |-> NoDue,
                                title |-> task_title, updated |-> edits + 1]
                          ELSE cloud[x]]
           /\ used' = used \cup {g}
    /\ edits' = edits + 1
    /\ UNCHANGED <<mapping_file, state_file, task_mapping, sync_state,
                   things_auth_token, pc, li, todo, all_google_task_ids, effects,
                   trail, orphan_seen, owed, last_detect, passes>>
    /\ UNCHANGED <<skipped, side_vars>>

\* TwoWaySync() and syncAll up to the loop over the lists: the files are
\* loaded, the token is read, and the ids of all tracked lists are collected.
StartPass(token) ==
    /\ pc = "idle"
    /\ passes < MaxPasses
    /\ task_mapping' = mapping_file
    /\ sync_state' = state_file
    /\ things_auth_token' = token
    /\ all_google_task_ids' =
          UNION {{t.id : t \in GetGoogleTasks(cloud, sync_lists[i])} :
                    i \in {j \in 1..Len(sync_lists) : sync_lists[j] \in AccountLists}}
    /\ effects' = <<>>
    /\ trail' = {}
    /\ orphan_seen' = EmptyDict
    /\ li' = 1
    /\ todo' = {}
    /\ pc' = "lists"
    /\ passes' = passes + 1
    /\ skipped' = {}
    /\ UNCHANGED <<cloud, used, mapping_file, state_file, last_detect, owed, edits>>
    /\ UNCHANGED side_vars

\* syncAll, `for list_name in sync_lists`: a list of the account is fetched by
\* syncList, a list the account does not hold is skipped with a warning.
SyncList ==
    /\ pc = "lists"
    /\ li <= Len(sync_lists)
    /\ IF sync_lists[li] \in AccountLists
       THEN /\ todo' = GetGoogleTasks(cloud, sync_lists[li])
            /\ pc' = "tasks"
            /\ li' = li
       ELSE /\ li' = li + 1
            /\ UNCHANGED <<todo, pc>>
    /\ UNCHANGED <<cloud, used, mapping_file, state_file, task_mapping, sync_state,
                   things_auth_token, all_google_task_ids, effects, trail,
                   orphan_seen, owed, last_detect, passes, edits>>
    /\ UNCHANGED <<skipped, side_vars>>

\* syncList, one iteration of its loop, on any of the fetched tasks (the
\* order of the cloud store's answer is not specified).
SyncTask(task, exit_ok, api_ok) ==
    /\ pc = "tasks"
    /\ task \in todo
    /\ LET r == ProcessTask(task, task_mapping, sync_state.task_states, cloud,
                            things_auth_token, task.id \in owed, exit_ok, api_ok)
           completion == {x \in r.trail : "completed" \in DOMAIN x.changes}
           update_ok == \E i \in DOMAIN r.log : r.log[i].op = "update" /\ r.log[i].ok
       IN  /\ task_mapping' = r.task_mapping
           /\ sync_state' = [sync_state EXCEPT !.task_states = r.task_states]
           /\ cloud' = r.cloud
           /\ effects' = effects \o r.log
           /\ trail' = trail \cup r.trail
           /\ skipped' = skipped \cup r.skipped
           /\ owed' = IF completion = {} THEN owed
                      ELSE IF \E x \in completion :
                                x.changes.completed = "true" /\ ~update_ok
                           THEN owed \cup {task.id}
                           ELSE owed \ {task.id}
    /\ todo' = todo \ {task}
    /\ UNCHANGED <<used, mapping_file, state_file, things_auth_token, pc, li,
                   all_google_task_ids, orphan_seen, last_detect, passes, edits>>
    /\ UNCHANGED side_vars

\* syncList returns: the next list.
SyncListDone ==
    /\ pc = "tasks"
    /\ todo = {}
    /\ pc' = "lists"
    /\ li' = li + 1
    /\ UNCHANGED <<cloud, used, mapping_file, state_file, task_mapping, sync_state,
                   things_auth_token, todo, all_google_task_ids, effects, trail,
                   orphan_seen, owed, last_detect, passes, edits>>
    /\ UNCHANGED <<skipped, side_vars>>

\* syncAll after the lists: the orphan check, then both files are saved.
FinishPass(exit_oks) ==
    /\ pc = "lists"
    /\ li > Len(sync_lists)
    /\ LET r == OrphanStep(task_mapping, sync_state.task_states, all_google_task_ids,
                           things_auth_token, exit_oks)
           s == [last_sync |-> "now", task_states |-> r.task_states]
       IN  /\ task_mapping' = r.task_mapping
           /\ mapping_file' = r.task_mapping
           /\ sync_state' = s
           /\ state_file' = s
           /\ effects' = effects \o r.log
    /\ orphan_seen' = task_mapping
    /\ pc' = "idle"
    /\ UNCHANGED <<cloud, used, things_auth_token, li, todo, all_google_task_ids,
                   trail, owed, last_detect, passes, edits>>
    /\ UNCHANGED <<skipped, side_vars>>

\* the cloud ids this pass deleted
DeletedByPass ==
    {effects[i].task : i \in {j \in DOMAIN effects : effects[j].op = "gdelete" /\ effects[j].ok}}

\* main, `except KeyboardInterrupt` and `except Exception`: syncAll is left
\* before `# Save state`; nothing is written, the process ends.
EndEarly ==
    /\ pc \in {"lists", "tasks"}
    /\ pc' = "idle"
    /\ task_mapping' = mapping_file
    /\ sync_state' = state_file
    /\ todo' = {}
    /\ li' = 1
    /\ lost' = lost \cup DeletedByPass
    /\ UNCHANGED <<cloud, used, mapping_file, state_file, things_auth_token,
                   all_google_task_ids, effects, trail, orphan_seen, last_detect,
                   owed, passes, edits, skipped>>
    /\ UNCHANGED interrupt_rest

\* One iteration of syncList's loop with what `open` and the cloud store come
\* to: an exception that leaves updateThingsTask or deleteGoogleTask would
\* leave syncAll.
SyncTaskStep(task, open_outcome, api_outcome) ==
    LET o == RunOpen(open_outcome)
        a == Execute(api_outcome)
        r == ProcessTask(task, task_mapping, sync_state.task_states, cloud,
                         things_auth_token, task.id \in owed, o.ok, a.ok)
        escapes == \/ o.raised /\ \E i \in DOMAIN r.log : r.log[i].op = "update"
                   \/ a.raised /\ \E i \in DOMAIN r.log : r.log[i].op = "gdelete"
    IN  /\ pc = "tasks"
        /\ task \in todo
        /\ IF escapes THEN EndEarly ELSE SyncTask(task, o.ok, a.ok)

\* The orphan check and the saving with what `open` comes to for each task.
FinishPassStep(outcomes) ==
    LET escapes == \E u \in DOMAIN task_mapping :
                       /\ IsOrphan(task_mapping[u], all_google_task_ids)
                       /\ things_auth_token
                       /\ RunOpen(outcomes[u]).raised
    IN  /\ pc = "lists"
        /\ li > Len(sync_lists)
        /\ IF escapes THEN EndEarly
           ELSE FinishPass({u \in UUIDs : RunOpen(outcomes[u]).ok})

\* the dues the user sets in the cloud store's own applications: date-only
UserDues == {NoDue, Ts(1, 0, 0), Ts(2, 0, 0)}

\* the titles the user gives to the tasks created in the cloud store: a
\* title a local task has too
UserTitles == {TitleOf("u1")}

\* the local task pushed next: tasks are interchangeable, so the first one
\* without a mapping entry
NextLocalTask == CHOOSE u \in UUIDs \ DOMAIN mapping_file : TRUE

Next ==
    \/ \E l \in AccountLists, stamped \in BOOLEAN :
          UUIDs \ DOMAIN mapping_file # {} /\ PushTask(NextLocalTask, l, stamped)
    \/ \E g \in GIds, s \in Statuses : UserSetStatus(g, s)
    \/ \E g \in GIds, d \in UserDues : UserSetDue(g, d)
    \/ \E g \in GIds : UserDelete(g)
    \/ \E l \in AccountLists, t \in UserTitles : UserAdd(l, t)
    \/ \E token \in BOOLEAN : StartPass(token)
    \/ SyncList
    \/ \E task \in todo, o \in OpenOutcomes, a \in ApiOutcomes : SyncTaskStep(task, o, a)
    \/ SyncListDone
    \/ \E outcomes \in [UUIDs -> OpenOutcomes] : FinishPassStep(outcomes)

Spec == Init /\ [][Next]_vars

(* ------------- a pass that is interrupted: SpecInterrupt --------------- *)
\* The operator interrupts the pass, or a request to the cloud store raises,
\* between two tasks or between two lists.
Interrupt == EndEarly

NextInterrupt ==
    \/ Next
    \/ Interrupt

SpecInterrupt == Init /\ [][NextInterrupt]_vars

(* ------------- getGoogleTasks page by page: SpecFetch ------------------ *)
\* nextPageToken: absent, or the token of a page
NoToken == [kind |-> "none"]
Token(i) == [kind |-> "token", page |-> i]

\* the id of the task on a page of a list
TaskOn(list_name, i) == [list |-> list_name, page |-> i]

\* service.tasks().list(tasklist, pageToken).execute(): the first page
\* without a token, else the page of the token; the items of the page, and
\* the token of the next page unless the page is the last
Respond(list_name, page_token) ==
    LET i == IF page_token = NoToken THEN 1 ELSE page_token.page
    IN  [items |-> pages[list_name][i],
         nextPageToken |-> IF i < Len(pages[list_name]) THEN Token(i + 1) ELSE NoToken]

\* mutant of GetPage: the loop is left after the first response
GetPageOnce(list_name, page_token, tasks) ==
    LET result == Respond(list_name, page_token)
    IN  [request |-> [list |-> list_name, pageToken |-> page_token],
         tasks |-> tasks \cup result.items,
         page_token |-> NoToken]

\* getGoogleTasks, one iteration of `while True`: the request, what
\* tasks.extend and page_token are left with
GetPage(list_name, page_token, tasks) ==
    LET result == Respond(list_name, page_token)
    IN  [request |-> [list |-> list_name, pageToken |-> page_token],
         tasks |-> tasks \cup result.items,
         page_token |-> result.nextPageToken]

\* every list of the account has one page at least; a page holds its task
\* or nothing
InitFetch ==
    /\ SyncIdle
    /\ CanonIdle
    /\ ExtractIdle
    /\ SaveIdle
    /\ InterruptIdle
    /\ LoadIdle
    /\ EnglishIdle
    /\ ServerIdle
    /\ UrlsIdle
    /\ OverlapIdle
    /\ LinksIdle
    /\ UploadIdle
    /\ WorkflowIdle
    /\ RaceIdle
    /\ \E n \in [AccountLists -> 1..MaxPages], full \in [AccountLists -> SUBSET (1..MaxPages)] :
          pages = [l \in AccountLists |->
                     [i \in 1..n[l] |-> IF i \in full[l] THEN {TaskOn(l, i)} ELSE {}]]
    /\ fetch = [pc |-> "lists", li |-> 1, page_token |-> NoToken, tasks |-> {},
                requests |-> <<>>, returned |-> EmptyDict, ids |-> {}]

\* syncAll, `for list_name in sync_lists: if list_name in lists`
CollectList ==
    /\ fetch.pc = "lists"
    /\ fetch.li <= Len(sync_lists)
    /\ fetch' = IF sync_lists[fetch.li] \in AccountLists
                THEN [fetch EXCEPT !.pc = "pages", !.page_token = NoToken, !.tasks = {}]
                ELSE [fetch EXCEPT !.li = @ + 1]
    /\ UNCHANGED <<pages, fetch_rest>>

\* getGoogleTasks, one iteration of `while True`; after the last one the ids
\* of the tasks returned are added to all_google_task_ids
FetchPage ==
    /\ fetch.pc = "pages"
    /\ LET list_name == sync_lists[fetch.li]
           r == GetPage(list_name, fetch.page_token, fetch.tasks)
       IN  fetch' = IF r.page_token # NoToken
                    THEN [fetch EXCEPT !.page_token = r.page_token, !.tasks = r.tasks,
                                       !.requests = Append(@, r.request)]
                    ELSE [fetch EXCEPT !.pc = "lists", !.li = @ + 1,
                                       !.page_token = NoToken, !.tasks = {},
                                       !.requests = Append(@, r.request),
                                       !.returned = [x \in DOMAIN @ \cup {list_name} |->
                                                       IF x = list_name THEN r.tasks ELSE @[x]],
                                       !.ids = @ \cup r.tasks]
    /\ UNCHANGED <<pages, fetch_rest>>

\* the first loop of syncAll is over
CollectDone ==
    /\ fetch.pc = "lists"
    /\ fetch.li > Len(sync_lists)
    /\ fetch' = [fetch EXCEPT !.pc = "done"]
    /\ UNCHANGED <<pages, fetch_rest>>

NextFetch ==
    \/ CollectList
    \/ FetchPage
    \/ CollectDone

SpecFetch == InitFetch /\ [][NextFetch]_vars

(* --------------- detectChanges on its own: SpecDetect ------------------ *)
\* the tasks the cloud store may return for one id, and the entries
\* detectChanges may have written for it before
Titles == {"Pay rent", "Buy milk"}
Stamps == {0, 1}
DetectTasks == [id : {"g1"}, status : Statuses, due : AllDues, title : Titles,
                updated : Stamps]
ObservedStates == [status : Statuses, due : AllDues, title : Titles, updated : Stamps]

InitDetect ==
    /\ cloud = EmptyDict
    /\ used = {}
    /\ mapping_file = EmptyDict
    /\ state_file = DefaultSyncState
    /\ task_mapping = EmptyDict
    /\ \E prior \in {EmptyDict} \cup {[g \in {"g1"} |-> p] : p \in ObservedStates} :
          sync_state = [last_sync |-> "None", task_states |-> prior]
    /\ things_auth_token = TRUE
    /\ pc = "detect"
    /\ li = 1
    /\ \E task \in DetectTasks : todo = {task}
    /\ all_google_task_ids = {}
    /\ effects = <<>>
    /\ trail = {}
    /\ orphan_seen = EmptyDict
    /\ last_detect = [called |-> FALSE]
    /\ owed = {}
    /\ passes = 0
    /\ edits = 0
    /\ skipped = {}
    /\ CanonIdle
    /\ ExtractIdle
    /\ SaveIdle
    /\ AuxIdle

\* one call of detectChanges(task, uuid); self.sync_state keeps what it wrote
DetectStep(task) ==
    /\ pc = "detect"
    /\ task \in todo
    /\ last_detect.called => last_detect.calls < MaxCalls
    /\ LET prior == sync_state.task_states
           has == task.id \in DOMAIN prior
           det == DetectChanges(task, prior)
       IN  /\ sync_state' = [sync_state EXCEPT !.task_states = det.task_states]
           /\ last_detect' =
                 [called |-> TRUE, task |-> task,
                  calls |-> IF last_detect.called THEN last_detect.calls + 1 ELSE 1,
                  had_prev |-> has,
                  prev_status |-> IF has THEN prior[task.id].status ELSE "None",
                  prev_due |-> IF has THEN prior[task.id].due ELSE NoDue,
                  prev_title |-> IF has THEN prior[task.id].title ELSE "None",
                  prev_updated |-> IF has THEN prior[task.id].updated ELSE "None",
                  changes |-> det.changes]
    /\ UNCHANGED <<cloud, used, mapping_file, state_file, task_mapping,
                   things_auth_token, pc, li, todo, all_google_task_ids, effects,
                   trail, orphan_seen, owed, passes, edits>>
    /\ UNCHANGED <<skipped, side_vars>>

NextDetect == \E task \in todo : DetectStep(task)

SpecDetect == InitDetect /\ [][NextDetect]_vars

(* ----------------- canonTitle on its own: SpecCanon -------------------- *)
KeyOf(title_str, was) == [kind |-> "key", s |-> CanonTitle(title_str), was |-> was]

InitCanon ==
    /\ SyncIdle
    /\ ExtractIdle
    /\ SaveIdle
    /\ AuxIdle
    /\ title \in TitleStrings
    /\ key = NoKey
    /\ last_op = "none"

\* canonTitle(title)
Canon ==
    /\ key = NoKey
    /\ key' = KeyOf(title, CanonTitle(title))
    /\ last_op' = "canon"
    /\ UNCHANGED <<title, canon_rest>>

\* canonTitle(canonTitle(title)): the key is canonicalized again
Recanon ==
    /\ last_op = "canon"
    /\ title' = key.s
    /\ key' = KeyOf(key.s, key.s)
    /\ last_op' = "recanon"
    /\ UNCHANGED canon_rest

\* the letter of the other case
OtherCase(c) ==
    CASE c = "A" -> "a"
      [] c = "a" -> "A"
      [] c = CapSigma -> SmallSigma
      [] c = SmallSigma -> CapSigma
      [] c = FinalSigma -> CapSigma

\* position i of the title may take a whitespace character without a new run
\* of whitespace inside the title: at either end, or next to whitespace
InRunOrAtEnd(s, i) ==
    \/ i = 1
    \/ i = Len(s) + 1
    \/ i > 1 /\ IsSpace(s[i - 1])
    \/ i <= Len(s) /\ IsSpace(s[i])

\* the whitespace at position i may go without two words becoming one
Removable(s, i) ==
    /\ IsSpace(s[i])
    /\ \/ i = 1
       \/ i = Len(s)
       \/ i > 1 /\ IsSpace(s[i - 1])
       \/ i < Len(s) /\ IsSpace(s[i + 1])

\* a title that differs from the one at hand in the case of one letter
FlipCase(i) ==
    /\ key # NoKey
    /\ i \in 1..Len(title)
    /\ title[i] \in {"A", "a", CapSigma, SmallSigma, FinalSigma}
    /\ title' = [title EXCEPT ![i] = OtherCase(title[i])]
    /\ key' = KeyOf(title', key.s)
    /\ last_op' = IF title[i] \in {"A", "a"} THEN "case_ascii" ELSE "case_other"
    /\ UNCHANGED canon_rest

\* a title that differs in one more whitespace character at an end or in a run
AddSpace(i, c) ==
    /\ key # NoKey
    /\ Len(title) < MaxTitleLen
    /\ i \in 1..(Len(title) + 1)
    /\ InRunOrAtEnd(title, i)
    /\ title' = SubSeq(title, 1, i - 1) \o <<c>> \o SubSeq(title, i, Len(title))
    /\ key' = KeyOf(title', key.s)
    /\ last_op' = "space"
    /\ UNCHANGED canon_rest

\* a title that differs in one whitespace character less at an end or in a run
DropSpace(i) ==
    /\ key # NoKey
    /\ i \in 1..Len(title)
    /\ Removable(title, i)
    /\ title' = SubSeq(title, 1, i - 1) \o SubSeq(title, i + 1, Len(title))
    /\ key' = KeyOf(title', key.s)
    /\ last_op' = "space"
    /\ UNCHANGED canon_rest

NextCanon ==
    \/ Canon
    \/ Recanon
    \/ \E i \in 1..MaxTitleLen : FlipCase(i)
    \/ \E i \in 1..(MaxTitleLen + 1), c \in {Space, Tab} : AddSpace(i, c)
    \/ \E i \in 1..MaxTitleLen : DropSpace(i)

SpecCanon == InitCanon /\ [][NextCanon]_vars

(* ------------- the extraction scripts on their own: SpecExtract -------- *)
\* the local tasks and the titles they may have: a title in Greek in two
\* spellings of one canonical key, and an English one
TIds == {"T1", "T2"}
Whens == {"today", "upcoming", "anytime", "someday"}
LocalTitles == {<<SmallSigma>>, <<CapSigma, Space>>, <<"a">>}

\* what AppleScript returns of the tasks that are in one of the lists, and
\* the orders it may be handed on in (as_completed gives no order)
TasksIn(whens) ==
    {[title |-> things[t].title, task_id |-> t] :
        t \in {x \in DOMAIN things : things[x].when \in whens}}
Orders(S) ==
    {q \in [1..Cardinality(S) -> S] :
        \A i, j \in 1..Cardinality(S) : i # j => q[i] # q[j]}

InitExtract ==
    /\ SyncIdle
    /\ CanonIdle
    /\ SaveIdle
    /\ AuxIdle
    /\ \E ids \in {{}, {"T1"}, TIds} :
          things \in [ids -> [title : LocalTitles, when : Whens]]
    /\ csv = [v \in {"Today", "Upcoming", "Anytime", "Someday"} |-> NoFile]
    /\ xpc = 1
    /\ epochs = 0
    /\ local_edits = 0
    /\ mid_epoch = FALSE
    /\ last_filter = [view |-> "none"]

\* extract_tasks.py: the file is written, also with no task
ExtractToday(all_tasks) ==
    /\ xpc = 1
    /\ epochs < MaxEpochs
    /\ LET tasks == TodayTasks(all_tasks)
       IN  /\ csv' = [csv EXCEPT !["Today"] = WriteToCsv(tasks)]
           /\ last_filter' = [view |-> "Today", out |-> tasks]
    /\ xpc' = 2
    /\ UNCHANGED <<things, epochs, local_edits, mid_epoch, extract_rest>>

\* extract_upcoming.py: with no task left, main returns before writeToCsv
ExtractUpcoming(all_tasks) ==
    /\ xpc = 2
    /\ LET tasks == UpcomingTasks(all_tasks, csv)
       IN  /\ csv' = IF tasks = <<>> THEN csv
                     ELSE [csv EXCEPT !["Upcoming"] = WriteToCsv(tasks)]
           /\ last_filter' = [view |-> "Upcoming", out |-> tasks]
    /\ xpc' = 3
    /\ UNCHANGED <<things, epochs, local_edits, mid_epoch, extract_rest>>

\* extract_anytime.py: the file is written, also with no task
ExtractAnytime(all_tasks) ==
    /\ xpc = 3
    /\ LET tasks == AnytimeTasks(all_tasks, csv)
       IN  /\ csv' = [csv EXCEPT !["Anytime"] = WriteToCsv(tasks)]
           /\ last_filter' = [view |-> "Anytime", out |-> tasks]
    /\ xpc' = 4
    /\ UNCHANGED <<things, epochs, local_edits, mid_epoch, extract_rest>>

\* extract_someday.py: with no task, writeToCsv of utils.py returns before
\* it writes
ExtractSomeday(all_tasks) ==
    /\ xpc = 4
    /\ LET tasks == SomedayTasks(all_tasks, csv)
       IN  /\ csv' = IF tasks = <<>> THEN csv
                     ELSE [csv EXCEPT !["Someday"] = WriteToCsv(tasks)]
           /\ last_filter' = [view |-> "Someday", out |-> tasks]
    /\ xpc' = 1
    /\ epochs' = epochs + 1
    /\ UNCHANGED <<things, local_edits, mid_epoch, extract_rest>>

\* The user renames a local task.
LocalRename(t, new_title) ==
    /\ local_edits < MaxLocalEdits
    /\ t \in DOMAIN things
    /\ things[t].title # new_title
    /\ things' = [things EXCEPT ![t].title = new_title]
    /\ local_edits' = local_edits + 1
    /\ mid_epoch' = (mid_epoch \/ xpc # 1)
    /\ UNCHANGED <<csv, xpc, epochs, last_filter, extract_rest>>

\* The user moves a local task to another list.
LocalMove(t, when) ==
    /\ local_edits < MaxLocalEdits
    /\ t \in DOMAIN things
    /\ things[t].when # when
    /\ things' = [things EXCEPT ![t].when = when]
    /\ local_edits' = local_edits + 1
    /\ mid_epoch' = (mid_epoch \/ xpc # 1)
    /\ UNCHANGED <<csv, xpc, epochs, last_filter, extract_rest>>

\* The Anytime script keeps the tasks without a start date, which leaves the
\* tasks of Today out; the Someday script asks for every open task without
\* an activation date, which the tasks of Anytime are too.
NextExtract ==
    \/ \E q \in Orders(TasksIn({"today"})) : ExtractToday(q)
    \/ \E q \in Orders(TasksIn({"upcoming"})) : ExtractUpcoming(q)
    \/ \E q \in Orders(TasksIn({"anytime"})) : ExtractAnytime(q)
    \/ \E q \in Orders(TasksIn({"anytime", "someday"})) : ExtractSomeday(q)
    \/ \E t \in TIds, x \in LocalTitles : LocalRename(t, x)
    \/ \E t \in TIds, w \in Whens : LocalMove(t, w)

SpecExtract == InitExtract /\ [][NextExtract]_vars

(* ------------- the saving of the state files on its own: SpecSave ------ *)
\* json.dump hands the document to the file piece by piece: the opening
\* brace, one piece per item in the order of the keys, the closing brace
RECURSIVE KeyOrder(_)
KeyOrder(S) ==
    IF S = {} THEN <<>>
    ELSE LET k == CHOOSE x \in S : TRUE IN <<k>> \o KeyOrder(S \ {k})

DumpDict(d) ==
    LET ks == KeyOrder(DOMAIN d)
    IN  <<[tok |-> "{"]>>
          \o [i \in 1..Len(ks) |-> [tok |-> "item", k |-> ks[i], v |-> d[ks[i]]]]
          \o <<[tok |-> "}"]>>

\* json.dump(self.task_mapping, f, indent=2)
DumpMapping(mapping) == DumpDict(mapping)

\* json.dump(self.sync_state, f, indent=2)
DumpSyncState(state) ==
    <<[tok |-> "{"], [tok |-> "item", k |-> "last_sync", v |-> state.last_sync],
      [tok |-> "key", k |-> "task_states"]>>
      \o DumpDict(state.task_states) \o <<[tok |-> "}"]>>

\* json.load reads a file that holds a whole document and nothing else
Loadable(chunks) ==
    /\ chunks # <<>>
    /\ chunks[1] = [tok |-> "{"]
    /\ LET depth(n) == Cardinality({i \in 1..n : chunks[i] = [tok |-> "{"]})
                         - Cardinality({i \in 1..n : chunks[i] = [tok |-> "}"]})
       IN  /\ depth(Len(chunks)) = 0
           /\ \A n \in 1..(Len(chunks) - 1) : depth(n) > 0

\* the files syncAll saves, in the order it saves them, and what it writes
SavedFiles == <<"state", "mapping">>
NewContent(f) == IF f = "state" THEN DumpSyncState(sync_state) ELSE DumpMapping(task_mapping)
OldContent(f) == IF f = "state" THEN DumpSyncState(state_file) ELSE DumpMapping(mapping_file)

\* the documents in memory and on disk when the saving starts
SavedMappings ==
    {[u \in U |-> [google_id |-> IF u = "u1" THEN "g1" ELSE "g2",
                   title |-> TitleOf(u), last_synced |-> stamp]] :
        U \in SUBSET UUIDs, stamp \in {"None", "now"}}
SavedStates ==
    {[last_sync |-> stamp,
      task_states |-> [g \in G |-> [status |-> "needsAction", due |-> NoDue,
                                    title |-> "Pay rent", updated |-> 0]]] :
        G \in SUBSET GIds, stamp \in {"None", "now"}}

InitSave ==
    /\ cloud = EmptyDict
    /\ used = {}
    /\ things_auth_token = TRUE
    /\ li = 1
    /\ todo = {}
    /\ all_google_task_ids = {}
    /\ effects = <<>>
    /\ trail = {}
    /\ orphan_seen = EmptyDict
    /\ last_detect = [called |-> FALSE]
    /\ owed = {}
    /\ passes = 0
    /\ edits = 0
    /\ skipped = {}
    /\ CanonIdle
    /\ ExtractIdle
    /\ AuxIdle
    /\ mapping_file \in SavedMappings
    /\ state_file \in SavedStates
    /\ task_mapping \in SavedMappings
    /\ sync_state \in SavedStates
    /\ disk = [f \in {"state", "mapping"} |-> OldContent(f)]
    /\ pc = <<"open", 1>>

\* open(path, 'w'): the file is cut to nothing before anything is written
OpenFile ==
    /\ pc[1] = "open"
    /\ disk' = [disk EXCEPT ![SavedFiles[pc[2]]] = <<>>]
    /\ pc' = <<"write", pc[2]>>
    /\ UNCHANGED <<mapping_file, state_file, task_mapping, sync_state, save_rest>>

\* json.dump: the next piece of the document reaches the file
WriteChunk ==
    /\ pc[1] = "write"
    /\ LET f == SavedFiles[pc[2]]
           n == Len(disk[f])
       IN  /\ n < Len(NewContent(f))
           /\ disk' = [disk EXCEPT ![f] = Append(@, NewContent(f)[n + 1])]
    /\ UNCHANGED <<pc, mapping_file, state_file, task_mapping, sync_state, save_rest>>

\* the with block is left: the file is whole, the next file is saved
CloseFile ==
    /\ pc[1] = "write"
    /\ LET f == SavedFiles[pc[2]]
       IN  /\ disk[f] = NewContent(f)
           /\ state_file' = IF f = "state" THEN sync_state ELSE state_file
           /\ mapping_file' = IF f = "mapping" THEN task_mapping ELSE mapping_file
    /\ pc' = IF pc[2] < Len(SavedFiles) THEN <<"open", pc[2] + 1>> ELSE <<"saved", pc[2]>>
    /\ UNCHANGED <<disk, task_mapping, sync_state, save_rest>>

\* The process is killed, or the machine goes down, while the files are
\* being saved.
Crash ==
    /\ pc[1] \in {"open", "write"}
    /\ pc' = <<"crashed", pc[2]>>
    /\ UNCHANGED <<disk, mapping_file, state_file, task_mapping, sync_state, save_rest>>

NextSave ==
    \/ OpenFile
    \/ WriteChunk
    \/ CloseFile
    \/ Crash

SpecSave == InitSave /\ [][NextSave]_vars

(* ------------- a run of main from the files on disk: SpecLoad ---------- *)
\* json.load on what json.dump wrote: the items between the braces
ParseDict(chunks) ==
    LET items == {i \in 2..(Len(chunks) - 1) : chunks[i].tok = "item"}
    IN  [k \in {chunks[i].k : i \in items} |->
            chunks[CHOOSE i \in items : chunks[i].k = k].v]

ParseMapping(chunks) == ParseDict(chunks)

ParseSyncState(chunks) ==
    [last_sync |-> chunks[2].v,
     task_states |-> ParseDict(SubSeq(chunks, 4, Len(chunks) - 1))]

\* mutant of LoadJson: a file that cannot be opened or parsed is taken for
\* an absent one
LoadJsonLenient(f, default) ==
    IF file_mode[f] = "present" /\ Loadable(disk[f])
    THEN [doc |-> IF f = "mapping" THEN ParseMapping(disk[f]) ELSE ParseSyncState(disk[f]),
          raised |-> FALSE]
    ELSE [doc |-> default, raised |-> FALSE]

\* _loadTaskMapping, _loadSyncState: the default without a file; else open
\* and json.load, whose exceptions are not caught here
LoadJson(f, default) ==
    IF file_mode[f] = "absent" THEN [doc |-> default, raised |-> FALSE]
    ELSE IF file_mode[f] = "denied" \/ ~Loadable(disk[f])
    THEN [doc |-> default, raised |-> TRUE]
    ELSE [doc |-> IF f = "mapping" THEN ParseMapping(disk[f]) ELSE ParseSyncState(disk[f]),
          raised |-> FALSE]

\* what a state file may hold when a run starts: a whole document or the
\* first pieces of one
Cut(chunks) == {SubSeq(chunks, 1, n) : n \in 0..Len(chunks)}
FileModes == {"absent", "present", "denied"}
LoadClouds ==
    {[g \in G |-> [list |-> "Today", status |-> st[g], due |-> NoDue,
                   title |-> IF g = "g1" THEN TitleOf("u1") ELSE TitleOf("u2"),
                   updated |-> 0]] :
        G \in SUBSET GIds \ {{}}, st \in [GIds -> Statuses]}

InitLoad ==
    /\ CanonIdle
    /\ ExtractIdle
    /\ InterruptIdle
    /\ FetchIdle
    /\ EnglishIdle
    /\ ServerIdle
    /\ UrlsIdle
    /\ OverlapIdle
    /\ LinksIdle
    /\ UploadIdle
    /\ WorkflowIdle
    /\ RaceIdle
    /\ cloud \in LoadClouds
    /\ used = GIds
    /\ file_mode \in [{"state", "mapping"} -> FileModes]
    /\ \E m \in SavedMappings, st \in SavedStates :
          \E cm \in Cut(DumpMapping(m)), cs \in Cut(DumpSyncState(st)) :
             /\ disk = [f \in {"state", "mapping"} |->
                          IF file_mode[f] # "present" THEN <<>>
                          ELSE IF f = "mapping" THEN cm ELSE cs]
             /\ mapping_file = IF file_mode["mapping"] = "present" /\ cm = DumpMapping(m)
                               THEN m ELSE EmptyDict
             /\ state_file = IF file_mode["state"] = "present" /\ cs = DumpSyncState(st)
                             THEN st ELSE DefaultSyncState
    /\ task_mapping = EmptyDict
    /\ sync_state = DefaultSyncState
    /\ things_auth_token = TRUE
    /\ pc = "idle"
    /\ li = 1
    /\ todo = {}
    /\ all_google_task_ids = {}
    /\ effects = <<>>
    /\ trail = {}
    /\ orphan_seen = EmptyDict
    /\ last_detect = [called |-> FALSE]
    /\ owed = {}
    /\ passes = 0
    /\ edits = 0
    /\ skipped = {}
    /\ exit_code = "none"

\* main: TwoWaySync() loads the mapping, then the sync state; an exception
\* of either load ends the run in `except Exception` with sys.exit(1).
\* Otherwise syncAll starts and collects the ids of the tracked lists.
Construct ==
    /\ pc = "idle"
    /\ passes < MaxPasses
    /\ LET m == LoadJson("mapping", EmptyDict)
           st == LoadJson("state", DefaultSyncState)
       IN  IF m.raised \/ st.raised
           THEN /\ exit_code' = "1"
                /\ UNCHANGED <<task_mapping, sync_state, all_google_task_ids, pc>>
           ELSE /\ exit_code' = "none"
                /\ task_mapping' = m.doc
                /\ sync_state' = st.doc
                /\ all_google_task_ids' =
                      UNION {{t.id : t \in GetGoogleTasks(cloud, sync_lists[i])} :
                                i \in {j \in 1..Len(sync_lists) : sync_lists[j] \in AccountLists}}
                /\ pc' = "lists"
    /\ effects' = <<>>
    /\ trail' = {}
    /\ skipped' = {}
    /\ orphan_seen' = EmptyDict
    /\ li' = 1
    /\ todo' = {}
    /\ passes' = passes + 1
    /\ UNCHANGED <<cloud, used, mapping_file, state_file, things_auth_token, last_detect,
                   owed, edits, disk, file_mode, load_rest>>

\* syncAll from the orphan check on: both files are written, main returns
FinishRun(outcomes) ==
    /\ pc = "lists"
    /\ li > Len(sync_lists)
    /\ LET r == OrphanStep(task_mapping, sync_state.task_states, all_google_task_ids,
                           things_auth_token, {u \in UUIDs : RunOpen(outcomes[u]).ok})
           s == [last_sync |-> "now", task_states |-> r.task_states]
       IN  /\ task_mapping' = r.task_mapping
           /\ mapping_file' = r.task_mapping
           /\ sync_state' = s
           /\ state_file' = s
           /\ effects' = effects \o r.log
           /\ disk' = [f \in {"state", "mapping"} |->
                          IF f = "mapping" THEN DumpMapping(r.task_mapping)
                          ELSE DumpSyncState(s)]
    /\ file_mode' = [f \in {"state", "mapping"} |-> "present"]
    /\ orphan_seen' = task_mapping
    /\ pc' = "idle"
    /\ exit_code' = "0"
    /\ UNCHANGED <<cloud, used, things_auth_token, li, todo, all_google_task_ids,
                   trail, owed, last_detect, passes, edits, skipped, load_rest>>

NextLoad ==
    \/ Construct
    \/ SyncList
    \/ \E task \in todo, o \in OpenOutcomes, a \in ApiOutcomes : SyncTaskStep(task, o, a)
    \/ SyncListDone
    \/ \E outcomes \in [UUIDs -> OpenOutcomes] : FinishRun(outcomes)

SpecLoad == InitLoad /\ [][NextLoad]_vars

(* ------------------------------ claims --------------------------------- *)
Calls(op, task_id) ==
    {i \in DOMAIN effects : effects[i].op = op /\ effects[i].task = task_id}
OkCalls(op, task_id) == {i \in Calls(op, task_id) : effects[i].ok}
Marked(r) == "mark_for_deletion" \in DOMAIN r.changes
EmitsCompletion(r) == "completed" \in DOMAIN r.changes /\ r.changes.completed = "true"
MappedTo(mapping, task_id) == {u \in DOMAIN mapping : mapping[u].google_id = task_id}
PassOver == pc = "idle" /\ passes > 0

\* C1: a mapped cloud task fetched completed, last observed not completed,
\* whose local update and cloud delete both succeed: the local store got an
\* update with completed=true for the mapped UUID, the cloud task is gone, and
\* neither the mapping nor the observed state holds an entry for it, in
\* memory from then on and in both files after the pass.
C1_CompletedTaskSynced ==
    \A r \in trail :
        (r.status = "completed" /\ r.prev_status # "completed"
         /\ OkCalls("update", r.id) # {} /\ OkCalls("gdelete", r.id) # {})
        => /\ \E i \in OkCalls("update", r.id) :
                /\ effects[i].id = r.uuid
                /\ "completed" \in DOMAIN effects[i].updates
                /\ effects[i].updates.completed = "true"
           /\ r.id \notin DOMAIN cloud
           /\ MappedTo(task_mapping, r.id) = {}
           /\ r.id \notin DOMAIN sync_state.task_states
           /\ PassOver => /\ MappedTo(mapping_file, r.id) = {}
                           /\ r.id \notin DOMAIN state_file.task_states

C1_Witness ==
    /\ PassOver
    /\ \E r \in trail :
          /\ r.status = "completed" /\ r.prev_status # "completed"
          /\ OkCalls("update", r.id) # {} /\ OkCalls("gdelete", r.id) # {}

\* C2: a cloud delete is issued for a task only after a local update for
\* the same task was issued and reported success; after a local update that
\* reported failure no cloud delete is issued for the task in the pass.
C2_UpdateBeforeDelete ==
    /\ \A i \in DOMAIN effects :
          effects[i].op = "gdelete"
          => \E j \in OkCalls("update", effects[i].task) : j < i
    /\ \A r \in trail :
          OkCalls("update", r.id) = {} => Calls("gdelete", r.id) = {}

C2_Witness ==
    \E r \in trail : Calls("update", r.id) # {} /\ Calls("gdelete", r.id) # {}

\* C3: a mapped task whose completion was detected and whose local update
\* has failed, and that stayed completed in the cloud since, has its completion
\* emitted again by the pass that fetches it next.
C3_CompletionEmittedAgain ==
    \A r \in trail : (r.was_owed /\ r.status = "completed") => EmitsCompletion(r)

\* C4 as stated: after the pass the observed state holds no entry for a task
\* for which detectChanges set mark_for_deletion in the pass.
C4_MarkedNotObserved ==
    PassOver => \A r \in trail : Marked(r) => r.id \notin DOMAIN state_file.task_states

\* C4 amended: after the pass the observed state holds no entry for a task
\* for which detectChanges set mark_for_deletion in the pass and whose local
\* update and cloud delete both reported success.
C4_MarkedAndDeletedNotObserved ==
    PassOver =>
        \A r \in trail :
            (Marked(r) /\ OkCalls("update", r.id) # {} /\ OkCalls("gdelete", r.id) # {})
            => /\ r.id \notin DOMAIN state_file.task_states
               /\ r.id \notin DOMAIN sync_state.task_states

C4_Witness ==
    /\ PassOver
    /\ \E r \in trail :
          Marked(r) /\ OkCalls("update", r.id) # {} /\ OkCalls("gdelete", r.id) # {}

\* C5: the orphan check removes no provisional entry and cancels no local
\* task of one: an entry without last_synced that the check found is in the
\* mapping after it, unchanged, also when its cloud id is not in the liveness
\* set, and no cancel was issued for its UUID.
C5_OrphanCheckSparesProvisional ==
    PassOver =>
        \A u \in DOMAIN orphan_seen :
            orphan_seen[u].last_synced = "None"
            => /\ u \in DOMAIN mapping_file
               /\ mapping_file[u] = orphan_seen[u]
               /\ \A i \in DOMAIN effects :
                     ~(effects[i].op = "cancel" /\ effects[i].id = u)

C5_Witness ==
    /\ PassOver
    /\ \E u \in DOMAIN orphan_seen :
          /\ orphan_seen[u].last_synced = "None"
          /\ orphan_seen[u].google_id \notin all_google_task_ids
          /\ things_auth_token

\* the entries without last_synced that the running pass loaded
ProvisionalAtLoad == {u \in DOMAIN mapping_file : mapping_file[u].last_synced = "None"}

\* C6 as stated: in no step of a pass is a cloud delete issued for the task
\* of a provisional entry, a cancel issued for its local task, or the entry
\* removed from the mapping.
C6_ProvisionalNeverDeletes ==
    pc # "idle" =>
        \A u \in ProvisionalAtLoad :
            /\ Calls("gdelete", mapping_file[u].google_id) = {}
            /\ Calls("cancel", mapping_file[u].google_id) = {}
            /\ u \in DOMAIN task_mapping

\* C6 amended: a provisional entry never has its local task cancelled and
\* is never removed by the orphan check; a cloud delete is issued for its task
\* only in step 2, when the task was fetched completed, not observed completed
\* before, and the local update with completed=true reported success, and the
\* entry is removed only when that cloud delete succeeded.
C6_ProvisionalDeletesOnlyOnCompletion ==
    /\ pc # "idle" =>
          \A u \in ProvisionalAtLoad :
              LET g == mapping_file[u].google_id
              IN  /\ \A i \in DOMAIN effects :
                        ~(effects[i].op = "cancel" /\ (effects[i].id = u \/ effects[i].task = g))
                  /\ Calls("gdelete", g) # {}
                     => /\ \E r \in trail :
                             /\ r.id = g /\ r.uuid = u /\ r.provisional
                             /\ r.status = "completed" /\ r.prev_status # "completed"
                        /\ \E j \in OkCalls("update", g) :
                             /\ "completed" \in DOMAIN effects[j].updates
                             /\ effects[j].updates.completed = "true"
                  /\ (u \in DOMAIN task_mapping /\ task_mapping[u] = mapping_file[u])
                     \/ OkCalls("gdelete", g) # {}
    /\ PassOver =>
          \A u \in DOMAIN orphan_seen :
              orphan_seen[u].last_synced = "None"
              => /\ Calls("cancel", orphan_seen[u].google_id) = {}
                 /\ MappedTo(mapping_file, orphan_seen[u].google_id) = {u}

C6_Witness ==
    /\ PassOver
    /\ \E r \in trail : r.provisional /\ OkCalls("gdelete", r.id) # {}
    /\ \E u \in DOMAIN orphan_seen : orphan_seen[u].last_synced = "None"

\* the entries the orphan check of the pass took for deleted in the cloud
StampedOrphans ==
    {u \in DOMAIN orphan_seen :
        /\ orphan_seen[u].last_synced # "None"
        /\ orphan_seen[u].google_id \notin all_google_task_ids}

OrphanHandled(u) ==
    LET g == orphan_seen[u].google_id
    IN  /\ \E i \in Calls("cancel", g) : effects[i].id = u
        /\ OkCalls("cancel", g) # {}
           => /\ MappedTo(mapping_file, g) = {}
              /\ g \notin DOMAIN state_file.task_states

\* C7 as stated: for every entry with last_synced whose cloud id the pass's
\* fetch did not return, the pass issues a cancel for the local task and,
\* when it reports success, removes the mapping entry and the observed state.
C7_OrphanCancelled ==
    PassOver => \A u \in StampedOrphans : OrphanHandled(u)

\* C7 amended: the same, for a pass that has a Things3 auth token.
C7_OrphanCancelledWithToken ==
    (PassOver /\ things_auth_token) => \A u \in StampedOrphans : OrphanHandled(u)

C7_Witness ==
    /\ PassOver
    /\ things_auth_token
    /\ \E u \in StampedOrphans : OkCalls("cancel", orphan_seen[u].google_id) # {}

\* C8: after a pass that fetched the cloud task of a provisional entry and
\* found it unchanged, the entry has a last_synced stamp.
C8_UnchangedTaskGainsStamp ==
    PassOver =>
        \A r \in trail :
            (r.provisional /\ r.changes = EmptyDict)
            => /\ r.uuid \in DOMAIN mapping_file
               /\ mapping_file[r.uuid].last_synced # "None"

\* C9: detectChanges emits completed=true with mark_for_deletion exactly
\* when the status is completed and the prior status is not (or there is no
\* prior state), completed=false exactly when the status is needsAction and
\* the prior status is completed, and never mark_for_deletion on a reopen.
C9_CompletionRule ==
    last_detect.called =>
        LET ch == last_detect.changes
            cur == last_detect.task.status
            prev == last_detect.prev_status
            newly == cur = "completed" /\ prev # "completed"
            reopened == cur = "needsAction" /\ prev = "completed"
        IN  /\ ("completed" \in DOMAIN ch /\ ch.completed = "true") <=> newly
            /\ ("mark_for_deletion" \in DOMAIN ch /\ ch.mark_for_deletion) <=> newly
            /\ ("completed" \in DOMAIN ch /\ ch.completed = "false") <=> reopened
            /\ "completed" \in DOMAIN ch <=> (newly \/ reopened)
            /\ reopened => "mark_for_deletion" \notin DOMAIN ch

C9_Witness ==
    /\ last_detect.called
    /\ ~last_detect.had_prev
    /\ last_detect.task.status = "completed"
    /\ "mark_for_deletion" \in DOMAIN last_detect.changes

\* C10: for a due that is absent or well-formed, detectChanges puts a
\* deadline in the changeset exactly when the due differs from the prior
\* observed due (absent differs from every present one); the deadline is the
\* due's calendar date, or empty when the due is absent; afterwards the
\* observed due is the task's current due.
C10_DeadlineRule ==
    (last_detect.called /\ last_detect.task.due \in {NoDue} \cup WellFormedDues) =>
        LET ch == last_detect.changes
            due == last_detect.task.due
        IN  /\ "deadline" \in DOMAIN ch <=> due # last_detect.prev_due
            /\ "deadline" \in DOMAIN ch
               => ch.deadline = IF due = NoDue THEN EmptyStr ELSE ThingsDate(due.day)
            /\ last_detect.task.id \in DOMAIN sync_state.task_states
            /\ sync_state.task_states[last_detect.task.id].due = due

C10_Witness ==
    /\ last_detect.called
    /\ last_detect.prev_due \in WellFormedDues
    /\ last_detect.task.due = NoDue
    /\ "deadline" \in DOMAIN last_detect.changes
    /\ last_detect.changes.deadline = EmptyStr

\* C11: detectChanges compares dues as bare calendar dates: when the current
\* due and the prior observed due name the same calendar date and differ only
\* in the time of day, the changeset carries no deadline; a deadline that is
\* forwarded for a timestamp is its date part, not shifted by the offset.
C11_SameDateNoDeadline ==
    last_detect.called =>
        LET ch == last_detect.changes
            due == last_detect.task.due
            prev == last_detect.prev_due
        IN  /\ (due.kind = "ts" /\ prev.kind = "ts"
                /\ due.day = prev.day /\ due.off = prev.off)
               => "deadline" \notin DOMAIN ch
            /\ ("deadline" \in DOMAIN ch /\ due.kind = "ts")
               => ch.deadline = ThingsDate(due.day)

\* C12: a second call of detectChanges in a row with the same cloud task,
\* seeing the state the first call wrote, returns an empty changeset, for
\* every task and every prior state.
C12_SecondCallEmpty ==
    (last_detect.called /\ last_detect.calls >= 2) => last_detect.changes = EmptyDict

C12_Witness ==
    /\ last_detect.called
    /\ last_detect.calls = 2
    /\ last_detect.task.status = "completed"
    /\ last_detect.task.due \in WellFormedDues
    /\ last_detect.changes = EmptyDict

\* C13: every call of detectChanges leaves the observed-state entry of the
\* task equal to the task's current status, due, title and updated fields,
\* whether or not the changeset it returned is empty.
C13_StateOverwritten ==
    last_detect.called =>
        LET t == last_detect.task
        IN  /\ t.id \in DOMAIN sync_state.task_states
            /\ sync_state.task_states[t.id] =
                  [status |-> t.status, due |-> t.due, title |-> t.title,
                   updated |-> t.updated]

C13_Witness ==
    /\ last_detect.called
    /\ last_detect.calls = 1
    /\ last_detect.had_prev
    /\ last_detect.changes = EmptyDict
    /\ last_detect.prev_title # last_detect.task.title
    /\ last_detect.prev_updated # last_detect.task.updated
    /\ sync_state.task_states[last_detect.task.id].title = last_detect.task.title

Taken == CHOOSE t \in todo : t \notin todo'

\* C15: processing a fetched task that resolves to no UUID makes no call to
\* the local store or the cloud store, leaves the cloud, the mapping and the
\* observed state as they were, and the loop goes on with the other fetched
\* tasks.
C15_UnmatchedSkipped ==
    [][(pc = "tasks" /\ todo' # todo
        /\ FindThingsUUID(task_mapping, Taken.id) = "None")
       => /\ effects' = effects
          /\ cloud' = cloud
          /\ task_mapping' = task_mapping
          /\ sync_state' = sync_state
          /\ pc' = "tasks"
          /\ todo' = todo \ {Taken}]_vars

C15_Witness ==
    /\ PassOver
    /\ trail # {}
    /\ \E s \in skipped :
          /\ s.id \in DOMAIN cloud
          /\ s.id \notin DOMAIN state_file.task_states

\* C18: canonTitle returns a key for every title, and canonicalizing the
\* key again returns the key itself.
C18_Idempotent ==
    /\ last_op # "none" => key.kind = "key"
    /\ last_op = "recanon" => key.s = key.was

C18_Witness ==
    /\ last_op = "recanon"
    /\ \E i \in 1..Len(key.s) : key.s[i] = FinalSigma
    /\ \E i \in 1..Len(key.s) : key.s[i] = Space

Trimmed(s) == s = <<>> \/ (~IsSpace(s[1]) /\ ~IsSpace(s[Len(s)]))
SingleSpaced(s) ==
    /\ \A i \in 1..Len(s) : IsSpace(s[i]) => s[i] = Space
    /\ \A i \in 1..(Len(s) - 1) : ~(IsSpace(s[i]) /\ IsSpace(s[i + 1]))
NoUpper(s) == \A i \in 1..Len(s) : ~IsUpper(s[i])
NoUpperAscii(s) == \A i \in 1..Len(s) : s[i] # "A"

\* C19 as stated: a title that differs from another only in the case of a
\* letter, in whitespace at an end or in the length of a whitespace run has
\* the same key, and a key has no whitespace at its ends, no whitespace but
\* single spaces and no upper-case letter.
C19_CaseWhitespaceInsensitive ==
    key # NoKey =>
        /\ last_op \in {"case_ascii", "case_other", "space"} => key.s = key.was
        /\ Trimmed(key.s)
        /\ SingleSpaced(key.s)
        /\ NoUpper(key.s)

\* C19 amended: the same for titles that differ in the case of ASCII letters
\* only (and in whitespace), and the key has no upper-case ASCII letter.
C19_AsciiCaseWhitespaceInsensitive ==
    key # NoKey =>
        /\ last_op \in {"case_ascii", "space"} => key.s = key.was
        /\ Trimmed(key.s)
        /\ SingleSpaced(key.s)
        /\ NoUpperAscii(key.s)

C19_Witness ==
    /\ last_op = "space"
    /\ Len(title) = MaxTitleLen
    /\ \E i \in 1..(Len(title) - 1) : title[i] = Tab /\ title[i + 1] = Space
    /\ title[1] = "A"
    /\ key.s = <<"a", Space, "a">>

\* the files of the views that are extracted before the view
EarlierFiles(view) ==
    {csv[Views[i]] : i \in {j \in 1..Len(Views) : \E k \in (j + 1)..Len(Views) : Views[k] = view}}
    \ {NoFile}
RecordedIds(files) == UNION {{f.rows[i].TaskID : i \in DOMAIN f.rows} : f \in files}
RecordedKeys(files) ==
    UNION {{CanonTitle(f.rows[i].ItemName) : i \in DOMAIN f.rows} : f \in files}

\* C16: what the Upcoming, the Anytime and the Someday filter keep holds no
\* task whose non-empty identifier is recorded in the output file of an
\* earlier view, and no task whose canonical title is the canonical title of
\* a row of such a file, whatever the order of the candidates.
C16_FilterDedups ==
    last_filter.view \in {"Upcoming", "Anytime", "Someday"} =>
        \A i \in DOMAIN last_filter.out :
            LET t == last_filter.out[i]
                earlier == EarlierFiles(last_filter.view)
            IN  /\ ~(t.task_id # "" /\ t.task_id \in RecordedIds(earlier))
                /\ CanonTitle(t.title) \notin RecordedKeys(earlier)

\* C17: after the four extractions have run in their order, any number of
\* times and whatever the user changed between one run of the four and the
\* next, no two of the four output files hold rows of the same canonical
\* title.
C17_FilesDisjoint ==
    (xpc = 1 /\ epochs > 0 /\ ~mid_epoch) =>
        \A v, w \in {"Today", "Upcoming", "Anytime", "Someday"} :
            v # w => RecordedKeys({csv[v]} \ {NoFile}) \cap RecordedKeys({csv[w]} \ {NoFile}) = {}

\* C20: a crash while the mapping file or the sync-state file is being saved
\* leaves each of the two files with the whole document it held before the
\* save or with the whole new document, never empty and never cut short.
C20_SaveAtomic ==
    pc[1] = "crashed" =>
        \A f \in {"state", "mapping"} :
            /\ Loadable(disk[f])
            /\ disk[f] \in {OldContent(f), NewContent(f)}

\* the ids of the tasks the fetches of the pass returned
FetchedIds == all_google_task_ids \cup {r.id : r \in trail} \cup {x.id : x \in skipped}

\* C25: after a pass, every key of the observed state on file is the id of a
\* cloud task one of the fetches of that pass returned.
C25_StateOnlyOfFetched ==
    PassOver => DOMAIN state_file.task_states \subseteq FetchedIds

OneToOne(mapping) ==
    \A u, v \in DOMAIN mapping :
        (u # v /\ mapping[u].google_id \notin {"None", ""})
            => mapping[u].google_id # mapping[v].google_id

C21_InterruptLeavesValidState ==
    /\ \A g \in lost : MappedTo(mapping_file, g) = {}
    /\ \A g \in lost \ DeletedByPass : Calls("cancel", g) = {}

\* C23: a failed update, cloud delete or cancel does not end the pass: the
\* loop over the tasks of a list is left only when no task remains, and the
\* pass ends only after the last list, with the orphan check made and both
\* files written.
C23_FailuresIsolated ==
    [][/\ (pc = "tasks" /\ pc' # "tasks") => todo = {}
       /\ (pc \in {"lists", "tasks"} /\ pc' = "idle")
             => /\ pc = "lists"
                /\ li > Len(sync_lists)
                /\ orphan_seen' = task_mapping
                /\ mapping_file' = task_mapping'
                /\ state_file' = sync_state'
                /\ state_file'.last_sync = "now"]_vars

\* a pass is over in which a call failed and another call was made after it
C23_Witness ==
    /\ PassOver
    /\ mapping_file = task_mapping
    /\ state_file = sync_state
    /\ \E i, j \in DOMAIN effects : i < j /\ ~effects[i].ok /\ effects[j].task # effects[i].task

\* the tasks on all pages of a list
AllOf(list_name) == UNION {pages[list_name][i] : i \in 1..Len(pages[list_name])}
\* the requests made for a list, in their order
RequestsFor(list_name) == SelectSeq(fetch.requests, LAMBDA r : r.list = list_name)

\* C27: the first request for a list carries no page token, each further
\* request carries the token of the response before it, the last response
\* is the first one without a token, and the tasks returned are those of all
\* pages; the ids collected by a pass are the ids of all tasks on all pages
\* of the tracked lists the account holds.
C27_AllPagesFetched ==
    /\ \A l \in DOMAIN fetch.returned :
          LET rs == RequestsFor(l)
          IN  /\ Len(rs) = Len(pages[l])
              /\ \A i \in 1..Len(rs) :
                    /\ rs[i].pageToken = IF i = 1 THEN NoToken
                                         ELSE Respond(l, rs[i - 1].pageToken).nextPageToken
                    /\ (Respond(l, rs[i].pageToken).nextPageToken = NoToken) <=> (i = Len(rs))
              /\ fetch.returned[l] = AllOf(l)
    /\ fetch.pc = "done" =>
          /\ DOMAIN fetch.returned = {sync_lists[i] : i \in 1..Len(sync_lists)} \cap AccountLists
          /\ fetch.ids = UNION {AllOf(l) : l \in DOMAIN fetch.returned}

\* a list of more than one page with a task on its last page was fetched,
\* and the pass has collected its ids
C27_Witness ==
    /\ fetch.pc = "done"
    /\ \E l \in DOMAIN fetch.returned :
          /\ Len(pages[l]) > 1
          /\ pages[l][Len(pages[l])] # {}
          /\ pages[l][Len(pages[l])] \subseteq fetch.ids
    /\ AllOf("Reminders") # {}

\* a state file that is there and cannot be opened or parsed
Unusable(f) == file_mode[f] = "denied" \/ (file_mode[f] = "present" /\ ~Loadable(disk[f]))

\* C24: a run that finds the mapping file or the sync-state file there and
\* not to be opened or parsed ends with exit status 1 and has called nothing,
\* deleted nothing and written nothing; a run starts its pass only from what
\* the files hold, and from the empty default only for a file that is absent.
C24_CorruptStateIsFatal ==
    [][passes' = passes + 1 =>
         IF Unusable("mapping") \/ Unusable("state")
         THEN /\ exit_code' = "1"
              /\ pc' = "idle"
              /\ effects' = <<>>
              /\ cloud' = cloud
              /\ disk' = disk
              /\ file_mode' = file_mode
         ELSE /\ pc' = "lists"
              /\ task_mapping' = IF file_mode["mapping"] = "absent" THEN EmptyDict
                                 ELSE mapping_file
              /\ sync_state' = IF file_mode["state"] = "absent" THEN DefaultSyncState
                               ELSE state_file]_vars

\* a run has failed on a cut mapping file with a completed task in the cloud
C24_Witness ==
    /\ exit_code = "1"
    /\ passes > 0
    /\ file_mode["mapping"] = "present"
    /\ disk["mapping"] # <<>>
    /\ ~Loadable(disk["mapping"])
    /\ file_mode["state"] = "present"
    /\ Loadable(disk["state"])
    /\ \E g \in DOMAIN cloud : cloud[g].status = "completed"
    /\ effects = <<>>

\* ---------------------------------------------------------------------
\* local_process_and_sync.py: processEnglishTasks
\* ---------------------------------------------------------------------

\* the tasks the default list may hold, and their titles
InboxIds == {"e1", "e2", "h1"}
InboxTitle(id) ==
    CASE id = "e1" -> <<"A">>
      [] id = "e2" -> <<SmallSigma, Space, "a">>
      [] OTHER -> <<SmallSigma>>

\* isEnglish: re.search(r"[A-Za-z]", text)
isEnglish(text) == \E i \in 1..Len(text) : text[i] \in {"A", "a"}

\* translateToHebrew returns the translation or raises (no API key, or the
\* request fails)
TranslateOutcomes == {"ok", "raises"}

\* loadProcessedTasks: the ids of the file, the empty set without a file
loadProcessedTasks == processed_file

\* addToThings3: True only when `open` exits with 0; whatever subprocess.run
\* raises is caught
addToThings3(outcome) == outcome = "exit0"

InitEnglish ==
    /\ SyncIdle
    /\ CanonIdle
    /\ ExtractIdle
    /\ SaveIdle
    /\ InterruptIdle
    /\ FetchIdle
    /\ LoadIdle
    /\ ServerIdle
    /\ UrlsIdle
    /\ OverlapIdle
    /\ LinksIdle
    /\ UploadIdle
    /\ WorkflowIdle
    /\ RaceIdle
    /\ inbox \in SUBSET InboxIds \ {{}}
    /\ processed_file = {}
    /\ english = [pc |-> "idle", processed_ids |-> {}, all_tasks |-> {}, runs |-> 0]
    /\ added = [id \in InboxIds |-> 0]

\* processEnglishTasks up to its loop: the processed ids are loaded and the
\* default list is fetched, all pages of it
StartRun ==
    /\ english.pc # "tasks"
    /\ english.runs < MaxRuns
    /\ english' = [pc |-> "tasks", processed_ids |-> loadProcessedTasks,
                   all_tasks |-> inbox, runs |-> english.runs + 1]
    /\ UNCHANGED <<inbox, processed_file, added, english_rest>>

\* one turn of the loop `for task in all_tasks`
ProcessOne(task_id, translated, open_outcome, api_outcome) ==
    /\ english.pc = "tasks"
    /\ task_id \in english.all_tasks
    /\ LET rest == english.all_tasks \ {task_id}
       IN  IF task_id \in english.processed_ids \/ ~isEnglish(InboxTitle(task_id))
           THEN \* continue
                /\ english' = [english EXCEPT !.all_tasks = rest]
                /\ UNCHANGED <<inbox, added>>
           ELSE IF translated = "raises"
           THEN \* the exception leaves processEnglishTasks
                /\ english' = [english EXCEPT !.pc = "failed", !.all_tasks = {}]
                /\ UNCHANGED <<inbox, added>>
           ELSE IF addToThings3(open_outcome)
           THEN /\ added' = [added EXCEPT ![task_id] = @ + 1]
                /\ english' = [english EXCEPT !.all_tasks = rest,
                                              !.processed_ids = @ \cup {task_id}]
                /\ inbox' = IF Execute(api_outcome).ok THEN inbox \ {task_id} ELSE inbox
           ELSE /\ english' = [english EXCEPT !.all_tasks = rest]
                /\ UNCHANGED <<inbox, added>>
    /\ UNCHANGED <<processed_file, english_rest>>

\* after the loop: saveProcessedTasks
SaveProcessed ==
    /\ english.pc = "tasks"
    /\ english.all_tasks = {}
    /\ processed_file' = english.processed_ids
    /\ english' = [english EXCEPT !.pc = "done"]
    /\ UNCHANGED <<inbox, added, english_rest>>

NextEnglish ==
    \/ StartRun
    \/ \E task_id \in InboxIds, translated \in TranslateOutcomes,
          open_outcome \in OpenOutcomes, api_outcome \in ApiOutcomes :
          ProcessOne(task_id, translated, open_outcome, api_outcome)
    \/ SaveProcessed

SpecEnglish == InitEnglish /\ [][NextEnglish]_vars

\* C28: over any number of runs of processEnglishTasks, runs that end with
\* an exception and runs in which a cloud delete fails included, every cloud
\* task id is added to the local store once at most.
C28_AddedAtMostOnce == \A id \in DOMAIN added : added[id] <= 1

\* ---------------------------------------------------------------------
\* server/process_english_tasks.py: main
\* ---------------------------------------------------------------------

\* the order in which tasks().list returns the tasks of the list
InboxOrder == <<"e1", "e2", "h1">>

\* is_english: _ENG_RE.search(text), _ENG_RE = re.compile(r"[A-Za-z]")
is_english(text) == \E i \in 1..Len(text) : text[i] \in {"A", "a"}

\* rephrase_hebrew: what the model answers for the text, here the text marked
rephrase_hebrew(text) == <<"he">> \o text

\* next_task_number: 1 without a file, else the number of rows plus one
next_task_number(csv_file) == Len(csv_file) + 1

\* to_csv succeeds, or raises with any number of the rows written
WriteOutcomes == {"ok", "raises"}

\* append_rows that keeps a failure of to_csv to itself
append_rows_quiet(csv_file, rows, outcome, written) ==
    [file |-> IF outcome = "ok" THEN csv_file \o rows
              ELSE csv_file \o SubSeq(rows, 1, written),
     raised |-> FALSE]

\* append_rows: the rows are appended to the file; what to_csv raises is
\* not caught
append_rows(csv_file, rows, outcome, written) ==
    [file |-> IF outcome = "ok" THEN csv_file \o rows
              ELSE csv_file \o SubSeq(rows, 1, written),
     raised |-> outcome # "ok"]

InitServer ==
    /\ SyncIdle
    /\ CanonIdle
    /\ ExtractIdle
    /\ SaveIdle
    /\ InterruptIdle
    /\ FetchIdle
    /\ LoadIdle
    /\ UrlsIdle
    /\ OverlapIdle
    /\ LinksIdle
    /\ UploadIdle
    /\ WorkflowIdle
    /\ RaceIdle
    /\ inbox \in SUBSET InboxIds \ {{}}
    /\ processed_file = {}
    /\ english = [pc |-> "idle"]
    /\ added = EmptyDict
    /\ fetched_csv = <<>>
    /\ processed_csv = <<>>
    /\ server = [pc |-> "idle", tasks |-> <<>>, idx |-> 1, next_num |-> 1,
                 fetched_rows |-> <<>>, processed_rows |-> <<>>,
                 deleted |-> {}, failed |-> "none", runs |-> 0]

\* main up to its first loop: one request for the list, the English tasks
\* are kept, and the next task number is read
ListTasks(api_outcome) ==
    /\ server.pc \in {"idle", "done", "failed"}
    /\ server.runs < MaxRuns
    /\ LET tasks == SelectSeq(InboxOrder,
                       LAMBDA id : id \in inbox /\ is_english(InboxTitle(id)))
           run == [server EXCEPT !.runs = @ + 1, !.tasks = <<>>, !.idx = 1,
                                 !.fetched_rows = <<>>, !.processed_rows = <<>>,
                                 !.deleted = {}, !.failed = "none"]
       IN  server' =
              IF ~Execute(api_outcome).ok
              THEN [run EXCEPT !.pc = "failed", !.failed = "list"]
              ELSE IF tasks = <<>>
              THEN [run EXCEPT !.pc = "done"]
              ELSE [run EXCEPT !.pc = "rows", !.tasks = tasks,
                               !.next_num = next_task_number(fetched_csv)]
    /\ UNCHANGED <<inbox, fetched_csv, processed_csv, server_rest>>

\* one turn of `for idx, item in enumerate(tasks, start=next_num)`
BuildRows(translated) ==
    /\ server.pc = "rows"
    /\ LET item == server.tasks[server.idx]
           number == server.next_num + server.idx - 1
           fetched == Append(server.fetched_rows,
                             [TaskNumber |-> number, TaskTitle |-> InboxTitle(item)])
       IN  server' =
              IF translated = "raises"
              THEN [server EXCEPT !.pc = "failed", !.failed = "translate",
                                  !.fetched_rows = fetched]
              ELSE [server EXCEPT
                      !.fetched_rows = fetched,
                      !.processed_rows =
                          Append(@, [TaskNumber |-> number,
                                     TaskTitle |-> rephrase_hebrew(InboxTitle(item))]),
                      !.idx = IF server.idx = Len(server.tasks) THEN 1 ELSE @ + 1,
                      !.pc = IF server.idx = Len(server.tasks) THEN "fetched" ELSE @]
    /\ UNCHANGED <<inbox, fetched_csv, processed_csv, server_rest>>

\* append_rows(FETCHED_CSV, fetched_rows)
WriteFetched(outcome, written) ==
    /\ server.pc = "fetched"
    /\ written \in 0..Len(server.fetched_rows)
    /\ LET r == append_rows(fetched_csv, server.fetched_rows, outcome, written)
       IN  /\ fetched_csv' = r.file
           /\ server' = IF r.raised
                        THEN [server EXCEPT !.pc = "failed", !.failed = "write"]
                        ELSE [server EXCEPT !.pc = "processed"]
    /\ UNCHANGED <<inbox, processed_csv, server_rest>>

\* append_rows(PROCESSED_CSV, processed_rows)
WriteProcessed(outcome, written) ==
    /\ server.pc = "processed"
    /\ written \in 0..Len(server.processed_rows)
    /\ LET r == append_rows(processed_csv, server.processed_rows, outcome, written)
       IN  /\ processed_csv' = r.file
           /\ server' = IF r.raised
                        THEN [server EXCEPT !.pc = "failed", !.failed = "write"]
                        ELSE [server EXCEPT !.pc = "delete"]
    /\ UNCHANGED <<inbox, fetched_csv, server_rest>>

\* one turn of `for item in tasks`: the delete request, not inside a try
DeleteItem(api_outcome) ==
    /\ server.pc = "delete"
    /\ LET item == server.tasks[server.idx]
       IN  IF Execute(api_outcome).ok
           THEN /\ inbox' = inbox \ {item}
                /\ server' = [server EXCEPT
                                !.deleted = @ \cup {item},
                                !.idx = @ + 1,
                                !.pc = IF server.idx = Len(server.tasks) THEN "done" ELSE @]
           ELSE /\ inbox' = inbox
                /\ server' = [server EXCEPT !.pc = "failed", !.failed = "delete"]
    /\ UNCHANGED <<fetched_csv, processed_csv, server_rest>>

NextServer ==
    \/ \E api_outcome \in ApiOutcomes : ListTasks(api_outcome)
    \/ \E translated \in TranslateOutcomes : BuildRows(translated)
    \/ \E outcome \in WriteOutcomes, written \in 0..Cardinality(InboxIds) :
          WriteFetched(outcome, written)
    \/ \E outcome \in WriteOutcomes, written \in 0..Cardinality(InboxIds) :
          WriteProcessed(outcome, written)
    \/ \E api_outcome \in ApiOutcomes : DeleteItem(api_outcome)

SpecServer == InitServer /\ [][NextServer]_vars

\* the row of the task in this run of the script: its number and title
RowOf(id) ==
    LET i == CHOOSE i \in 1..Len(server.tasks) : server.tasks[i] = id
    IN  [TaskNumber |-> server.next_num + i - 1, TaskTitle |-> InboxTitle(id)]

\* the row is in the file
Written(csv_file, row) == \E i \in 1..Len(csv_file) : csv_file[i] = row

NaN == "NaN"

\* API_KEY, and the Authorization headers a request may carry, each as
\* auth_header.split(' ') gives it; no header is the empty sequence
API_KEY == "default-api-key"
AuthHeaders ==
    {<<>>, <<"Bearer">>, <<"Bearer", "">>, <<"Bearer", API_KEY>>, <<"Bearer", "other-key">>,
     <<"Basic", API_KEY>>, <<"Bearer", "", API_KEY>>, <<"Bearer", API_KEY, "more">>}

\* authenticate_request: the header starts with 'Bearer ' and the word
\* after the first space is the key
authenticate_request(auth_header) ==
    /\ Len(auth_header) >= 2
    /\ auth_header[1] = "Bearer"
    /\ auth_header[2] = API_KEY

\* build_url: the title, percent-encoded, in a things:///add link for Today
build_url(task_title) ==
    IF task_title = "Pay rent" THEN "things:///add?title=Pay%20rent&when=today"
    ELSE "things:///add?title=Buy%20milk&when=today"

\* the rows get_new_urls serves: Processed is 'No' and GenUrl is not empty
indices_to_update(rows) ==
    {i \in 1..Len(rows) : rows[i].Processed = "No" /\ rows[i].GenUrl # NaN}

\* the rows written back as they were read
MarkNothing(rows, indices) == rows

\* df.loc[indices_to_update, 'Processed'] = 'Yes'
MarkProcessed(rows, indices) ==
    [i \in 1..Len(rows) |->
        IF i \in indices THEN [rows[i] EXCEPT !.Processed = "Yes"] ELSE rows[i]]

\* read_csv and to_csv succeed or raise
CsvOutcomes == {"ok", "raises"}

\* the indices of a set, in ascending order
RECURSIVE Ascending(_)
Ascending(S) ==
    IF S = {} THEN <<>>
    ELSE LET m == CHOOSE x \in S : \A y \in S : x <= y
         IN  <<m>> \o Ascending(S \ {m})

InitUrls ==
    /\ SyncIdle
    /\ CanonIdle
    /\ ExtractIdle
    /\ SaveIdle
    /\ InterruptIdle
    /\ FetchIdle
    /\ LoadIdle
    /\ EnglishIdle
    /\ ServerIdle
    /\ UrlsIdle
    /\ OverlapIdle
    /\ LinksIdle
    /\ UploadIdle
    /\ WorkflowIdle
    /\ RaceIdle

\* process_english_tasks.py appends a row to processed_tasks.csv: four
\* columns, so the cells of GenUrl and Processed are empty; the header is
\* written when the file is not there
AppendRow(task_title) ==
    /\ Len(url_csv.rows) < MaxRows
    /\ url_csv' = [url_csv EXCEPT
                      !.exists = TRUE,
                      !.rows = Append(@, [TaskNumber |-> Len(url_csv.rows) + 1,
                                          TaskTitle |-> task_title,
                                          GenUrl |-> NaN, Processed |-> NaN])]
    /\ UNCHANGED <<last_linked, responses, upload_vars, urls_rest>>

\* create_things_links.py, update_csv_with_urls: a row gets its URL and
\* Processed = 'No' when its number is above the last linked one and its
\* GenUrl is empty, or when the GenUrl column was only just added; each URL
\* is appended to the legacy URL file as well
link_rows(df, last_num) ==
    LET rows == df.rows
        linked == {i \in 1..Len(rows) :
                      \/ rows[i].TaskNumber > last_num /\ rows[i].GenUrl = NaN
                      \/ ~df.columns}
        max_num == IF linked = {} THEN last_num
                   ELSE LET top == CHOOSE i \in linked :
                                      \A j \in linked : rows[j].TaskNumber <= rows[i].TaskNumber
                        IN  IF rows[top].TaskNumber > last_num
                            THEN rows[top].TaskNumber ELSE last_num
    IN  [df |-> [df EXCEPT
                    !.columns = TRUE,
                    !.rows = [i \in 1..Len(rows) |->
                                IF i \in linked
                                THEN [rows[i] EXCEPT !.GenUrl = build_url(rows[i].TaskTitle),
                                                     !.Processed = "No"]
                                ELSE IF ~df.columns
                                THEN [rows[i] EXCEPT !.Processed = "No"]
                                ELSE rows[i]]],
         urls |-> [k \in 1..Cardinality(linked) |->
                     build_url(rows[Ascending(linked)[k]].TaskTitle)],
         max_num |-> max_num]

\* a run of update_csv_with_urls from its read of the file to the write of
\* the state file
update_csv_with_urls ==
    /\ url_csv.exists
    /\ LET r == link_rows(url_csv, last_linked)
       IN  /\ url_csv' = r.df
           /\ output_file' = output_file \o r.urls
           /\ last_linked' = r.max_num
    /\ UNCHANGED <<responses, local_csv, urls_rest>>

\* get_new_urls: the answer to one request and the file it leaves
get_new_urls(auth_header, read_outcome, write_outcome) ==
    /\ Len(responses) < MaxRequests
    /\ LET authorized == authenticate_request(auth_header)
           indices == indices_to_update(url_csv.rows)
           answer(status, served) ==
               [status |-> status, authorized |-> authorized,
                urls |-> [k \in 1..Len(served) |->
                            [row |-> served[k],
                             task_number |-> url_csv.rows[served[k]].TaskNumber,
                             url |-> url_csv.rows[served[k]].GenUrl]]]
       IN  IF ~authorized
           THEN /\ responses' = Append(responses, answer(401, <<>>))
                /\ url_csv' = url_csv
           ELSE IF ~url_csv.exists
           THEN /\ responses' = Append(responses, answer(404, <<>>))
                /\ url_csv' = url_csv
           ELSE IF read_outcome = "raises" \/ ~url_csv.columns
           THEN /\ responses' = Append(responses, answer(500, <<>>))
                /\ url_csv' = url_csv
           ELSE IF indices # {} /\ write_outcome = "raises"
           THEN /\ responses' = Append(responses, answer(500, <<>>))
                /\ url_csv' = url_csv
           ELSE /\ responses' = Append(responses, answer(200, Ascending(indices)))
                /\ url_csv' = [url_csv EXCEPT !.rows = MarkProcessed(@, indices)]
    /\ UNCHANGED <<last_linked, upload_vars, urls_rest>>

NextUrls ==
    \/ \E task_title \in {TitleOf(u) : u \in UUIDs} : AppendRow(task_title)
    \/ update_csv_with_urls
    \/ \E auth_header \in AuthHeaders, read_outcome \in CsvOutcomes,
          write_outcome \in CsvOutcomes :
          get_new_urls(auth_header, read_outcome, write_outcome)

SpecUrls == InitUrls /\ [][NextUrls]_vars

\* the rows, and the URLs, a response carries
RowsIn(response) == {response.urls[k].row : k \in 1..Len(response.urls)}
UrlsIn(response) == {response.urls[k].url : k \in 1..Len(response.urls)}

\* the response of the request handled in this step
Answered == responses'[Len(responses')]

RECURSIVE RunTasks(_, _, _, _, _)
RunTasks(tasks, mapping, task_states, cl, token) ==
    IF tasks = {}
    THEN [task_mapping |-> mapping, task_states |-> task_states, cloud |-> cl]
    ELSE LET task == CHOOSE x \in tasks : TRUE
             r == ProcessTask(task, mapping, task_states, cl, token, FALSE, TRUE, TRUE)
         IN  RunTasks(tasks \ {task}, r.task_mapping, r.task_states, r.cloud, token)

\* TwoWaySync() in the second invocation, and its fetch of the lists. It is
\* started while a pass is under way: started at any other time it is one
\* more pass of Spec.
OtherLoad ==
    /\ other.pc = "idle"
    /\ pc \in {"lists", "tasks"}
    /\ LET tasks == UNION {GetGoogleTasks(cloud, sync_lists[i]) :
                              i \in {j \in 1..Len(sync_lists) : sync_lists[j] \in AccountLists}}
       IN  other' = [pc |-> "loaded", task_mapping |-> mapping_file,
                     sync_state |-> state_file, tasks |-> tasks,
                     all_google_task_ids |-> {t.id : t \in tasks}]
    /\ UNCHANGED <<cloud, mapping_file, state_file, overlap_rest>>

\* the rest of syncAll in the second invocation, up to `# Save state`
OtherSave ==
    /\ other.pc = "loaded"
    /\ LET r == RunTasks(other.tasks, other.task_mapping, other.sync_state.task_states,
                         cloud, TRUE)
           o == OrphanStep(r.task_mapping, r.task_states, other.all_google_task_ids,
                           TRUE, UUIDs)
       IN  /\ mapping_file' = o.task_mapping
           /\ state_file' = [last_sync |-> "now", task_states |-> o.task_states]
           /\ cloud' = r.cloud
    /\ other' = [pc |-> "saved"]
    /\ UNCHANGED overlap_rest

NextOverlap ==
    \/ Next
    \/ OtherLoad
    \/ OtherSave

SpecOverlap == Init /\ [][NextOverlap]_vars

\* C22: the mapping file and the observed-state file are never in use by
\* two invocations of a pass at once: while one pass is between loading and
\* saving them, no other pass has loaded them and not yet saved.
C22_FilesUsedByOnePass == ~(pc \in {"lists", "tasks"} /\ other.pc = "loaded")

\* the calls made in this step: their places in the log after it
NewCalls == (Len(effects) + 1)..Len(effects')

\* the step is one turn of the loop of syncList
TaskStep == pc = "tasks" /\ todo' # todo

\* in this step the local update of the task made for uuid succeeded and
\* the cloud delete of task_id after it did too
UpdatedThenDeleted(uuid, task_id) ==
    \E i, j \in NewCalls :
        /\ i < j
        /\ effects'[i].op = "update" /\ effects'[i].id = uuid /\ effects'[i].ok
        /\ effects'[j].op = "gdelete" /\ effects'[j].id = task_id /\ effects'[j].ok

\* C32: in the loop of syncList a mapping entry or an observed-state entry
\* is dropped only when the local update and the cloud delete of its task
\* both reported success; when the cloud delete fails after a successful
\* update, the mapping is as before, the observed state still holds the
\* task, and no successful delete was counted.
C32_DroppedOnlyAfterBoth ==
    [][TaskStep =>
         /\ \A u \in DOMAIN task_mapping \ DOMAIN task_mapping' :
               UpdatedThenDeleted(u, task_mapping[u].google_id)
         /\ \A g \in DOMAIN sync_state.task_states \ DOMAIN sync_state'.task_states :
               \E u \in MappedTo(task_mapping, g) : UpdatedThenDeleted(u, g)
         /\ \A j \in NewCalls :
               (effects'[j].op = "gdelete" /\ ~effects'[j].ok)
               => /\ task_mapping' = task_mapping
                  /\ effects'[j].id \in DOMAIN sync_state'.task_states
                  /\ \A k \in NewCalls : ~(effects'[k].op = "gdelete" /\ effects'[k].ok)
                  /\ cloud' = cloud]_vars

\* a pass is over in which the update of a completed task succeeded and its
\* cloud delete failed: both files still hold the task
C32_Witness ==
    /\ PassOver
    /\ \E r \in trail :
          /\ Marked(r)
          /\ OkCalls("update", r.id) # {}
          /\ Calls("gdelete", r.id) # {}
          /\ OkCalls("gdelete", r.id) = {}
          /\ MappedTo(mapping_file, r.id) # {}
          /\ r.id \in DOMAIN state_file.task_states
          /\ r.id \in DOMAIN cloud

\* ---------------------------------------------------------------------
\* google_to_things_sync.py: the pass after a cloud delete that failed
\* ---------------------------------------------------------------------

\* the task of u1 as the cloud store holds it, completed by the user
CompletedTask ==
    [list |-> "Today", status |-> "completed", due |-> NoDue,
     title |-> TitleOf("u1"), updated |-> 1]

\* What a pass leaves when its update of u1 succeeded and its delete of g1
\* failed: g1 is in the cloud store, completed, the mapping holds u1, and
\* the observed state holds g1 as detectChanges saw it. The counters count
\* from here.
InitRetry ==
    /\ CanonIdle
    /\ ExtractIdle
    /\ SaveIdle
    /\ AuxIdle
    /\ cloud = [g \in {"g1"} |-> CompletedTask]
    /\ used = {"g1"}
    /\ mapping_file = UpdateTaskMapping(EmptyDict, "u1", "g1", TitleOf("u1"))
    /\ task_mapping = mapping_file
    /\ state_file = [last_sync |-> "now",
                     task_states |-> [g \in {"g1"} |->
                                        ObservedState([id |-> "g1"] @@ CompletedTask)]]
    /\ sync_state = state_file
    /\ things_auth_token = TRUE
    /\ pc = "idle"
    /\ li = 1
    /\ todo = {}
    /\ all_google_task_ids = {}
    /\ effects = <<>>
    /\ trail = {}
    /\ orphan_seen = EmptyDict
    /\ last_detect = [called |-> FALSE]
    /\ owed = {}
    /\ passes = 0
    /\ edits = 0
    /\ skipped = {}

SpecRetry == InitRetry /\ [][Next]_vars

\* C33: a pass that fetches a mapped task completed, after a pass whose
\* update of it succeeded and whose cloud delete failed, issues the cloud
\* delete again, and when that succeeds neither file holds the task.
C33_DeleteIssuedAgain ==
    PassOver =>
        \A r \in trail :
            (r.id = "g1" /\ r.status = "completed" /\ r.prev_status = "completed")
            => /\ Calls("gdelete", r.id) # {}
               /\ OkCalls("gdelete", r.id) # {}
                  => /\ MappedTo(mapping_file, r.id) = {}
                     /\ r.id \notin DOMAIN state_file.task_states

\* C34: the orphan check issues a cancel for a local task only when its
\* cloud task is in no list of the cloud store: a task in a list that is not
\* one of the four tracked ones does not have its local task cancelled.
C34_CancelOnlyWhenGone ==
    [][\A i \in NewCalls :
          effects'[i].op = "cancel" => effects'[i].task \notin DOMAIN cloud]_vars

\* C35: a pass without a Things3 auth token makes no call to the local
\* store, deletes no cloud task, removes no mapping entry, and does not
\* record as observed the completion or reopening it detected.
C35_NoTokenPassIsInert ==
    (PassOver /\ ~things_auth_token) =>
        /\ effects = <<>>
        /\ \A r \in trail :
              /\ r.uuid \in DOMAIN mapping_file
              /\ "completed" \in DOMAIN r.changes
                 => ~(/\ r.id \in DOMAIN state_file.task_states
                      /\ state_file.task_states[r.id].status = r.status)

\* ---------------------------------------------------------------------
\* server/ipad_links/serve_things_links.py
\* ---------------------------------------------------------------------

\* the lines the URL file may hold, stripped: two URLs and the blank line
BlankLine == ""
LinkLines == {BlankLine, build_url("Pay rent"), build_url("Buy milk")}

\* load_urls: the lines that are not blank, in order
load_urls == SelectSeq(links_file, LAMBDA line : line # BlankLine)

\* str(idx): the decimal digits of a number that is not negative
RECURSIVE Decimal(_)
Decimal(n) == IF n < 10 THEN <<n>> ELSE Decimal(n \div 10) \o <<n % 10>>

\* int(text): the number the digits spell; ValueError for the empty text
\* and for a text with another character
RECURSIVE IntOf(_)
IntOf(text) ==
    IF text = <<>> \/ \E i \in 1..Len(text) : text[i] \notin 0..9
    THEN [raised |-> TRUE, value |-> 0]
    ELSE IF Len(text) = 1 THEN [raised |-> FALSE, value |-> text[1]]
    ELSE [raised |-> FALSE,
          value |-> 10 * IntOf(SubSeq(text, 1, Len(text) - 1)).value + text[Len(text)]]

\* read_index that starts at 1 without a file
read_index_from_one ==
    IF ~index_file.exists THEN 1
    ELSE IF IntOf(index_file.text).raised THEN 0
    ELSE IntOf(index_file.text).value

\* read_index: 0 without a file and on ValueError
read_index ==
    IF ~index_file.exists THEN 0
    ELSE IF IntOf(index_file.text).raised THEN 0
    ELSE IntOf(index_file.text).value

\* write_index: the file holds str(idx)
write_index(idx) == [exists |-> TRUE, text |-> Decimal(idx)]

\* the paths of the requests, and self.path.rstrip("/")
Paths == {"/next", "/next/", "/next?n=1", "/"}
Rstrip(path) ==
    IF path = "/next/" THEN "/next" ELSE IF path = "/" THEN "" ELSE path

\* the URL file is fixed; the state file is not there, or is empty
InitLinks ==
    /\ SyncIdle
    /\ CanonIdle
    /\ ExtractIdle
    /\ SaveIdle
    /\ InterruptIdle
    /\ FetchIdle
    /\ LoadIdle
    /\ EnglishIdle
    /\ ServerIdle
    /\ UrlsIdle
    /\ OverlapIdle
    /\ UploadIdle
    /\ WorkflowIdle
    /\ RaceIdle
    /\ links_file \in UNION {[1..n -> LinkLines] : n \in 0..MaxLines}
    /\ index_file \in {[exists |-> FALSE, text |-> <<>>], [exists |-> TRUE, text |-> <<>>]}
    /\ answers = <<>>

\* LinkHandler.do_GET; a path other than /next is answered from the
\* directory and changes nothing
do_GET(path) ==
    /\ Len(answers) < MaxRequests
    /\ IF Rstrip(path) = "/next"
       THEN LET urls == load_urls
                idx == read_index
            IN  IF idx < Len(urls)
                THEN /\ index_file' = write_index(idx + 1)
                     /\ answers' = Append(answers, [status |-> 200, body |-> urls[idx + 1]])
                ELSE /\ index_file' = index_file
                     /\ answers' = Append(answers, [status |-> 204, body |-> BlankLine])
       ELSE UNCHANGED <<index_file, answers>>
    /\ UNCHANGED <<links_file, links_rest>>

NextLinks == \E path \in Paths : do_GET(path)

SpecLinks == InitLinks /\ [][NextLinks]_vars

\* the URLs of the file: its lines that are not blank
UrlsOfFile == SelectSeq(links_file, LAMBDA line : line # BlankLine)

\* the number the state file holds
StoredIndex(f) == IF f.exists /\ ~IntOf(f.text).raised THEN IntOf(f.text).value ELSE 0

\* the i-th request is answered with the i-th URL of the file while there
\* is one, with 204 after that
AnsweredInOrder ==
    \A i \in 1..Len(answers) :
        answers[i] = IF i <= Len(UrlsOfFile)
                     THEN [status |-> 200, body |-> UrlsOfFile[i]]
                     ELSE [status |-> 204, body |-> BlankLine]

\* C31 as stated: the i-th request of GET /next returns the i-th URL of the
\* file with 200, and 204 when the file has no i-th URL; the stored index is
\* the number of URLs returned and never above the number of URLs; no URL
\* is returned twice.
C31_EachUrlReturnedOnce ==
    /\ AnsweredInOrder
    /\ StoredIndex(index_file) <= Len(UrlsOfFile)
    /\ \A i, j \in 1..Len(answers) :
          (i # j /\ answers[i].status = 200 /\ answers[j].status = 200)
          => answers[i].body # answers[j].body

\* C31, amended: the same, and no line of the file is returned twice: the
\* k-th URL of the file is the answer of the k-th request and of no other.
C31_EachLineReturnedOnce ==
    /\ AnsweredInOrder
    /\ StoredIndex(index_file) <= Len(UrlsOfFile)
    /\ StoredIndex(index_file) = Cardinality({i \in 1..Len(answers) : answers[i].status = 200})
    /\ \A i \in 1..Len(answers) :
          answers[i].status = 204 => StoredIndex(index_file) = Len(UrlsOfFile)

\* every URL of a file with a blank line was returned, then a request got 204
C31_Witness ==
    /\ Len(UrlsOfFile) = 2
    /\ Len(links_file) = 3
    /\ Len(answers) = 3
    /\ answers[3].status = 204
    /\ index_file.text = <<2>>

\* ---------------------------------------------------------------------
\* process_english_tasks.py on one machine, the link script on another
\* ---------------------------------------------------------------------

\* the rows of a file of four columns as read_csv gives them when GenUrl
\* and Processed are asked for
FourColumns(rows) ==
    [i \in 1..Len(rows) |->
        [TaskNumber |-> rows[i].TaskNumber, TaskTitle |-> rows[i].TaskTitle,
         GenUrl |-> NaN, Processed |-> NaN]]

\* main of process_english_tasks.py with one English task and
\* REMOTE_PROCESSED_CSV set: the row is appended to the local file of four
\* columns, and upload_to_ec2 copies that file over the one the link
\* script reads
UploadRow(task_title) ==
    /\ Len(local_csv) < MaxRows
    /\ LET row == [TaskNumber |-> Len(local_csv) + 1, TaskTitle |-> task_title]
       IN  /\ local_csv' = Append(local_csv, row)
           /\ url_csv' = [exists |-> TRUE, columns |-> FALSE,
                          rows |-> FourColumns(Append(local_csv, row))]
    /\ UNCHANGED <<last_linked, responses, output_file, urls_rest>>

NextUpload ==
    \/ \E task_title \in {TitleOf(u) : u \in UUIDs} : UploadRow(task_title)
    \/ update_csv_with_urls
    \/ \E auth_header \in AuthHeaders, read_outcome \in CsvOutcomes,
          write_outcome \in CsvOutcomes :
          get_new_urls(auth_header, read_outcome, write_outcome)

SpecUpload == InitUrls /\ [][NextUpload]_vars

\* a run of update_csv_with_urls
LinkStep == url_csv.exists /\ url_csv'.columns /\ Len(url_csv'.rows) = Len(url_csv.rows)
            /\ responses' = responses /\ local_csv' = local_csv

\* C38: a run of update_csv_with_urls gives a URL, and a line of the legacy
\* URL file, only to rows with a TaskNumber above the number of the state
\* file and no GenUrl; it leaves the rows at or below that number as they
\* are; the state file then holds the highest number it gave a URL to and
\* never a smaller number than before.
C38_OnlyAboveLastLinked ==
    [][LinkStep =>
        LET rows == url_csv.rows
            given == {i \in 1..Len(rows) : rows[i].GenUrl = NaN /\ url_csv'.rows[i].GenUrl # NaN}
        IN  /\ \A i \in given : rows[i].TaskNumber > last_linked
            /\ Len(output_file') = Len(output_file) + Cardinality(given)
            /\ \A i \in 1..Len(rows) :
                  rows[i].TaskNumber <= last_linked
                  => /\ url_csv'.rows[i].GenUrl = rows[i].GenUrl
                     /\ (rows[i].GenUrl # NaN => url_csv'.rows[i].Processed = rows[i].Processed)
            /\ last_linked' >= last_linked
            /\ \A i \in given : rows[i].TaskNumber <= last_linked']_vars

\* ---------------------------------------------------------------------
\* the writers of outputs/processed_tasks.csv on one machine
\* ---------------------------------------------------------------------

\* main of process_english_tasks.py with one English task: the number is
\* next_task_number(FETCHED_CSV), the row goes to fetched_tasks.csv with the
\* title and to processed_tasks.csv with the title the translation gave
AppendBoth(task_title, hebrew_title) ==
    /\ Len(url_csv.rows) < MaxRows
    /\ LET number == next_task_number(fetched_csv)
       IN  /\ fetched_csv' = Append(fetched_csv,
                                    [TaskNumber |-> number, TaskTitle |-> task_title])
           /\ url_csv' = [url_csv EXCEPT
                             !.exists = TRUE,
                             !.rows = Append(@, [TaskNumber |-> number,
                                                 TaskTitle |-> hebrew_title,
                                                 GenUrl |-> NaN, Processed |-> NaN])]
    /\ UNCHANGED <<sync_vars, canon_vars, extract_vars, save_vars, interrupt_vars, fetch_vars,
                   load_vars, english_vars, processed_csv, server, last_linked, responses,
                   overlap_vars, links_vars, upload_vars, workflow_vars, race_vars>>

\* the lists of tasks a cycle of WorkflowAutomator hands over
TaskLists == UNION {[1..n -> {TitleOf(u) : u \in UUIDs}] : n \in 1..MaxRows}

\* WorkflowAutomator.saveProcessedTasksToCSV: the tasks of the cycle are
\* numbered from 1 and put after the rows of the file; an exception is
\* logged and the file stays as it was
ConcatToCsv(processed_csv_file, processed_tasks, outcome) ==
    LET csv_data == [i \in 1..Len(processed_tasks) |->
                       [TaskNumber |-> i, TaskTitle |-> processed_tasks[i],
                        GenUrl |-> NaN, Processed |-> NaN]]
    IN  IF outcome = "ok"
        THEN [processed_csv_file EXCEPT !.exists = TRUE, !.rows = @ \o csv_data]
        ELSE processed_csv_file

\* a call of saveProcessedTasksToCSV with the tasks of a cycle
saveProcessedTasksToCSV(processed_tasks, outcome) ==
    /\ Len(url_csv.rows) + Len(processed_tasks) <= MaxRows
    /\ url_csv' = ConcatToCsv(url_csv, processed_tasks, outcome)
    /\ UNCHANGED <<last_linked, responses, upload_vars, urls_rest>>

NextAppend ==
    \/ \E task_title, hebrew_title \in {TitleOf(u) : u \in UUIDs} :
          AppendBoth(task_title, hebrew_title)
    \/ \E processed_tasks \in TaskLists, outcome \in CsvOutcomes :
          saveProcessedTasksToCSV(processed_tasks, outcome)
    \/ update_csv_with_urls
    \/ \E auth_header \in AuthHeaders, read_outcome \in CsvOutcomes,
          write_outcome \in CsvOutcomes :
          get_new_urls(auth_header, read_outcome, write_outcome)

SpecAppend == InitUrls /\ [][NextAppend]_vars

\* the numbers go up along the rows
NumbersIncrease(rows) ==
    \A i, j \in 1..Len(rows) : i < j => rows[i].TaskNumber < rows[j].TaskNumber

\* C39: after any appends by process_english_tasks.py and
\* saveProcessedTasksToCSV the TaskNumber values of processed_tasks.csv are
\* unique and go up along the rows, and every row without a GenUrl has a
\* TaskNumber above the number update_csv_with_urls keeps, so that its next
\* run gives the row a GenUrl.
C39_NumbersUniqueAndLinked ==
    /\ NumbersIncrease(url_csv.rows)
    /\ \A i \in 1..Len(url_csv.rows) :
          url_csv.rows[i].GenUrl = NaN => url_csv.rows[i].TaskNumber > last_linked

\* ---------------------------------------------------------------------
\* server/automated_workflow.py, WorkflowAutomator
\* ---------------------------------------------------------------------

\* isEnglishTask: re.search(r'[A-Za-z]', title)
isEnglishTask(text) == \E i \in 1..Len(text) : text[i] \in {"A", "a"}

\* translateToHebrew: the answer of the model, or the title with two emojis
\* when the request fails; RuntimeError without OPENAI_API_KEY
HebrewOutcomes == {"ok", "fallback", "no_key"}
translateToHebrew(text, outcome) ==
    [raised |-> outcome = "no_key",
     title |-> IF text = InboxTitle("e1") THEN TitleOf("u1") ELSE TitleOf("u2")]

\* testUrlLocally: True for return code 0 of `open`, False otherwise, and
\* for TimeoutExpired and any other exception
testUrlLocally(outcome) == outcome = "exit0"

\* deleteProcessedTask: True when the request went through
deleteProcessedTask(api_outcome) == Execute(api_outcome).ok

\* __init__ without a state file, tasks in the default list
InitWorkflow ==
    /\ SyncIdle
    /\ CanonIdle
    /\ ExtractIdle
    /\ SaveIdle
    /\ InterruptIdle
    /\ FetchIdle
    /\ LoadIdle
    /\ ServerIdle
    /\ UrlsIdle
    /\ OverlapIdle
    /\ LinksIdle
    /\ UploadIdle
    /\ RaceIdle
    /\ inbox \in SUBSET InboxIds \ {{}}
    /\ processed_file = {}
    /\ english = [pc |-> "idle"]
    /\ added = EmptyDict
    /\ processed_task_ids = {}
    /\ ids_file = {}
    /\ workflow = [pc |-> "idle", new_tasks |-> <<>>, idx |-> 1, processed_tasks |-> <<>>,
                   opened |-> {}, tried |-> <<>>, cycles |-> 0]

\* runSingleCycle up to its loop: getNewEnglishTasks, which returns [] when
\* the request fails
GetNewEnglishTasks(api_outcome) ==
    /\ workflow.pc = "idle"
    /\ workflow.cycles < MaxRuns
    /\ LET new_tasks ==
               IF ~Execute(api_outcome).ok THEN <<>>
               ELSE SelectSeq(InboxOrder,
                        LAMBDA id : /\ id \in inbox
                                    /\ id \notin processed_task_ids
                                    /\ isEnglishTask(InboxTitle(id)))
       IN  workflow' = [workflow EXCEPT
                          !.cycles = @ + 1,
                          !.new_tasks = new_tasks,
                          !.idx = 1,
                          !.processed_tasks = <<>>,
                          !.pc = IF new_tasks = <<>> THEN "idle" ELSE "process"]
    /\ UNCHANGED <<inbox, url_csv, processed_task_ids, ids_file, workflow_rest>>

\* one turn of `for task in new_tasks`: processTask, which adds the id to
\* processed_task_ids once the title is translated (line 202), then
\* generateThingsUrl, testUrlLocally and, when the URL opened,
\* deleteProcessedTask
ProcessNewTask(translated, open_outcome, api_outcome) ==
    /\ workflow.pc = "process"
    /\ LET id == workflow.new_tasks[workflow.idx]
           hebrew == translateToHebrew(InboxTitle(id), translated)
           url_works == ~hebrew.raised /\ testUrlLocally(open_outcome)
           deleted == url_works /\ deleteProcessedTask(api_outcome)
           last == workflow.idx = Len(workflow.new_tasks)
       IN  /\ processed_task_ids' =
                 IF ~hebrew.raised
                 THEN processed_task_ids \cup {id} ELSE processed_task_ids
           /\ inbox' = IF deleted THEN inbox \ {id} ELSE inbox
           /\ workflow' = [workflow EXCEPT
                             !.tried = Append(@, id),
                             !.opened = IF url_works THEN @ \cup {id} ELSE @,
                             !.processed_tasks = IF deleted THEN Append(@, hebrew.title) ELSE @,
                             !.idx = IF last THEN 1 ELSE @ + 1,
                             !.pc = IF last THEN "save" ELSE @]
    /\ UNCHANGED <<url_csv, ids_file, workflow_rest>>

\* the end of runSingleCycle: with a task processed, saveProcessedTasksToCSV
\* and saveProcessedTaskIds
FinishCycle(outcome) ==
    /\ workflow.pc = "save"
    /\ IF workflow.processed_tasks # <<>>
       THEN /\ url_csv' = ConcatToCsv(url_csv, workflow.processed_tasks, outcome)
            /\ ids_file' = processed_task_ids
       ELSE UNCHANGED <<url_csv, ids_file>>
    /\ workflow' = [workflow EXCEPT !.pc = "idle"]
    /\ UNCHANGED <<inbox, processed_task_ids, workflow_rest>>

NextWorkflow ==
    \/ \E api_outcome \in ApiOutcomes : GetNewEnglishTasks(api_outcome)
    \/ \E translated \in HebrewOutcomes, open_outcome \in OpenOutcomes,
          api_outcome \in ApiOutcomes :
          ProcessNewTask(translated, open_outcome, api_outcome)
    \/ \E outcome \in CsvOutcomes : FinishCycle(outcome)

SpecWorkflow == InitWorkflow /\ [][NextWorkflow]_vars

\* C36: between the cycles of WorkflowAutomator a task id is in
\* processed_task_ids only if its URL was opened and the task was deleted
\* from the default list, so that a task whose open or delete failed is
\* returned again by getNewEnglishTasks.
C36_MarkedOnlyWhenDone ==
    workflow.pc = "idle"
    => \A id \in processed_task_ids : id \in workflow.opened /\ id \notin inbox

\* ---------------------------------------------------------------------
\* serve_urls.py and create_things_links.py on the same processed_tasks.csv,
\* step by step
\* ---------------------------------------------------------------------

\* the requests Flask handles at once (app.run is threaded)
Handlers == {1, 2}

\* nothing is being handled; process_english_tasks.py appends the rows
InitRace ==
    /\ SyncIdle
    /\ CanonIdle
    /\ ExtractIdle
    /\ SaveIdle
    /\ InterruptIdle
    /\ FetchIdle
    /\ LoadIdle
    /\ EnglishIdle
    /\ ServerIdle
    /\ UrlsIdle
    /\ OverlapIdle
    /\ LinksIdle
    /\ UploadIdle
    /\ WorkflowIdle
    /\ handlers = [h \in Handlers |-> [pc |-> "idle", df |-> url_csv, indices |-> {}]]
    /\ linker = [pc |-> "idle", df |-> url_csv]

\* what a request answers from the table it read
ServedFrom(df, status, served) ==
    [status |-> status, authorized |-> TRUE,
     urls |-> [k \in 1..Len(served) |->
                 [row |-> served[k],
                  task_number |-> df.rows[served[k]].TaskNumber,
                  url |-> df.rows[served[k]].GenUrl]]]

\* get_new_urls of an authorized request, up to the choice of the rows:
\* read_csv, the check of the columns, indices_to_update; without a row to
\* serve it answers at once
RequestRead(h) ==
    /\ handlers[h].pc = "idle"
    /\ Len(responses) < MaxRequests
    /\ url_csv.exists
    /\ LET indices == indices_to_update(url_csv.rows)
       IN  IF ~url_csv.columns
           THEN /\ responses' = Append(responses, ServedFrom(url_csv, 500, <<>>))
                /\ handlers' = [handlers EXCEPT ![h].pc = "done"]
           ELSE IF indices = {}
           THEN /\ responses' = Append(responses, ServedFrom(url_csv, 200, <<>>))
                /\ handlers' = [handlers EXCEPT ![h].pc = "done"]
           ELSE /\ responses' = responses
                /\ handlers' = [handlers EXCEPT
                                  ![h] = [pc |-> "write", df |-> url_csv, indices |-> indices]]
    /\ UNCHANGED <<url_csv, last_linked, output_file, linker, race_rest>>

\* the rest of the request: the rows are marked in the table it read, the
\* table is written with to_csv, and the answer is sent
RequestWrite(h) ==
    /\ handlers[h].pc = "write"
    /\ url_csv' = [handlers[h].df EXCEPT !.rows = MarkProcessed(@, handlers[h].indices)]
    /\ responses' = Append(responses,
                           ServedFrom(handlers[h].df, 200, Ascending(handlers[h].indices)))
    /\ handlers' = [handlers EXCEPT ![h].pc = "done"]
    /\ UNCHANGED <<last_linked, output_file, linker, race_rest>>

\* update_csv_with_urls up to its loop: read_csv
LinkRead ==
    /\ linker.pc = "idle"
    /\ url_csv.exists
    /\ linker' = [pc |-> "write", df |-> url_csv]
    /\ UNCHANGED <<url_csv, last_linked, responses, output_file, handlers, race_rest>>

\* the rest of update_csv_with_urls: the loop over the table it read,
\* to_csv, and the state file
LinkWrite ==
    /\ linker.pc = "write"
    /\ LET r == link_rows(linker.df, last_linked)
       IN  /\ url_csv' = r.df
           /\ output_file' = output_file \o r.urls
           /\ last_linked' = r.max_num
    /\ linker' = [linker EXCEPT !.pc = "idle"]
    /\ UNCHANGED <<responses, handlers, race_rest>>

NextRace ==
    \/ \E task_title \in {TitleOf(u) : u \in UUIDs} : AppendRow(task_title)
    \/ \E h \in Handlers : RequestRead(h)
    \/ \E h \in Handlers : RequestWrite(h)
    \/ LinkRead
    \/ LinkWrite

SpecRace == InitRace /\ [][NextRace]_vars

\* C37: with requests and the link script interleaved no row is served to
\* two requests, and no 'Yes' mark and no GenUrl that is in the file is
\* taken out of it by a later write.
C37_NoLostUpdate ==
    [][/\ \A i, j \in 1..Len(responses') :
             i # j => RowsIn(responses'[i]) \cap RowsIn(responses'[j]) = {}
       /\ \A i \in 1..Len(url_csv.rows) :
             /\ url_csv.rows[i].Processed = "Yes"
                => i <= Len(url_csv'.rows) /\ url_csv'.rows[i].Processed = "Yes"
             /\ (url_csv.columns /\ url_csv.rows[i].GenUrl # NaN)
                => i <= Len(url_csv'.rows) /\ url_csv'.rows[i].GenUrl = url_csv.rows[i].GenUrl]_vars
====
